---- MODULE Spec2Model ----
(***************************************************************************)
(* Model of the orchestration engine of brady-ai (src/src/orchestrator.ts):*)
(* the RateLimiter (sliding window + cooldown), the step executor with     *)
(* provider fallback, and the task lifecycle (executeTask, executePlan,    *)
(* askDirector, executeTaskWithRole).                                      *)
(*                                                                         *)
(* Time is Date.now() in milliseconds, relative to construction.  One      *)
(* action is one synchronous segment of an async function: the code        *)
(* between two awaits.                                                     *)
(***************************************************************************)
EXTENDS Integers, Sequences, FiniteSets, TLC

VARIABLES
    now,                 \* Date.now(), ms
    modelConfig,         \* BradyAI.modelConfig: [roles, rateLimits]
    apiKeys,             \* BradyAI.apiKeys: set of providers with a key
    agents,              \* BradyAI.agents: registered agent keys
    rateLimiter,         \* RateLimiter: [providerRequestTimestamps, providerCooldownUntil]
    taskHistory,         \* BradyAI.taskHistory
    currentTaskProgress, \* BradyAI.currentTaskProgress (Null or a record)
    calls,               \* one frame per in-flight call of a public operation
    admitLog,            \* history: allowed admits, per provider, with their time
    lastAdmit,           \* history: the last RateLimiter.wait call and its effect
    trips,               \* history: per provider, time of the last rate-limit signal (429)
                         \* of its agent, or of the last direct enterCooldown call
    responses,           \* history: number of agent.execute calls settled so far
    harnessCalls         \* history: number of direct RateLimiter calls (unit harness)

vars == <<now, modelConfig, apiKeys, agents, rateLimiter, taskHistory,
          currentTaskProgress, calls, admitLog, lastAdmit, trips, responses,
          harnessCalls>>

\* null / undefined: as an object reference, and as a missing registry entry
Null == [null |-> TRUE]

NoAgent == "null"

----------------------------------------------------------------------------
(* Bounds of the model *)

MaxTime == 60000        \* last clock value of the orchestrator specifications
MaxResponses == 6       \* agent.execute calls settled in one behaviour
MaxRLTime == 70000      \* last clock value of the RateLimiter harness
MaxCalls == 4           \* RateLimiter calls made by the harness
MaxChunks == 2          \* pieces of a text handed to parsePlan by its harness

TickSteps == {30000}
RLTickSteps == {10000}

----------------------------------------------------------------------------
(* Configuration: model-priorities.json *)

Providers == {"groq", "gemini", "perplexity", "portkey"}

Provider(name, models, priority) ==
    [name |-> name, models |-> models, priority |-> priority]

RateLimitConfig(rpm, cooldown) ==
    [requestsPerMinute |-> rpm, cooldownSeconds |-> cooldown]

RateLimitsA ==
    [p \in {"groq", "gemini"} |->
        IF p = "groq" THEN RateLimitConfig(2, 90) ELSE RateLimitConfig(1, 30)]

----------------------------------------------------------------------------
(* Map helpers: a Map is a function whose domain is the set of keys *)

MapSet(m, k, v) == [x \in DOMAIN m \cup {k} |-> IF x = k THEN v ELSE m[x]]

EmptyMap == [x \in {} |-> 0]

----------------------------------------------------------------------------
(* RateLimiter *)

\* variant: the cooldown is set without looking the provider up in the
\* configuration, with a default length of 60 seconds
enterCooldown_NoGuard(rl, limits, provider, t) ==
    [rl EXCEPT !.providerCooldownUntil =
        MapSet(@, provider,
               t + (IF provider \in DOMAIN limits
                    THEN limits[provider].cooldownSeconds ELSE 60) * 1000)]

enterCooldown(rl, limits, provider, t) ==
    IF provider \in DOMAIN limits
    THEN [rl EXCEPT !.providerCooldownUntil =
              MapSet(@, provider, t + limits[provider].cooldownSeconds * 1000)]
    ELSE rl

\* variant: the window is full only when it holds more than requestsPerMinute
wait_OffByOne(rl, limits, provider, t) ==
    LET cd == rl.providerCooldownUntil
        ts == rl.providerRequestTimestamps
    IN  IF provider \in DOMAIN cd /\ cd[provider] # 0 /\ t < cd[provider]
        THEN [allowed |-> FALSE, reason |-> "cooldown", rl |-> rl]
        ELSE IF provider \notin DOMAIN limits
        THEN [allowed |-> TRUE, reason |-> "No rate limit configured", rl |-> rl]
        ELSE LET timestamps == IF provider \in DOMAIN ts THEN ts[provider] ELSE <<>>
                 oneMinuteAgo == t - 60000
                 recentTimestamps == SelectSeq(timestamps, LAMBDA x : x > oneMinuteAgo)
             IN  IF Len(recentTimestamps) > limits[provider].requestsPerMinute
                 THEN [allowed |-> FALSE, reason |-> "rate limit reached",
                       rl |-> enterCooldown(rl, limits, provider, t)]
                 ELSE [allowed |-> TRUE, reason |-> "Request allowed",
                       rl |-> [rl EXCEPT !.providerRequestTimestamps =
                                  MapSet(@, provider, Append(recentTimestamps, t))]]

\* variant: the cooldown is consulted only once the window is found full
wait_WindowFirst(rl, limits, provider, t) ==
    LET cd == rl.providerCooldownUntil
        ts == rl.providerRequestTimestamps
    IN  IF provider \notin DOMAIN limits
        THEN [allowed |-> TRUE, reason |-> "No rate limit configured", rl |-> rl]
        ELSE LET timestamps == IF provider \in DOMAIN ts THEN ts[provider] ELSE <<>>
                 oneMinuteAgo == t - 60000
                 recentTimestamps == SelectSeq(timestamps, LAMBDA x : x > oneMinuteAgo)
             IN  IF Len(recentTimestamps) >= limits[provider].requestsPerMinute
                 THEN IF provider \in DOMAIN cd /\ cd[provider] # 0 /\ t < cd[provider]
                      THEN [allowed |-> FALSE, reason |-> "cooldown", rl |-> rl]
                      ELSE [allowed |-> FALSE, reason |-> "rate limit reached",
                            rl |-> enterCooldown(rl, limits, provider, t)]
                 ELSE [allowed |-> TRUE, reason |-> "Request allowed",
                       rl |-> [rl EXCEPT !.providerRequestTimestamps =
                                  MapSet(@, provider, Append(recentTimestamps, t))]]

\* variant: the window is never pruned
wait_NoPrune(rl, limits, provider, t) ==
    LET cd == rl.providerCooldownUntil
        ts == rl.providerRequestTimestamps
    IN  IF provider \in DOMAIN cd /\ cd[provider] # 0 /\ t < cd[provider]
        THEN [allowed |-> FALSE, reason |-> "cooldown", rl |-> rl]
        ELSE IF provider \notin DOMAIN limits
        THEN [allowed |-> TRUE, reason |-> "No rate limit configured", rl |-> rl]
        ELSE LET timestamps == IF provider \in DOMAIN ts THEN ts[provider] ELSE <<>>
                 recentTimestamps == timestamps
             IN  IF Len(recentTimestamps) >= limits[provider].requestsPerMinute
                 THEN [allowed |-> FALSE, reason |-> "rate limit reached",
                       rl |-> enterCooldown(rl, limits, provider, t)]
                 ELSE [allowed |-> TRUE, reason |-> "Request allowed",
                       rl |-> [rl EXCEPT !.providerRequestTimestamps =
                                  MapSet(@, provider, Append(recentTimestamps, t))]]

\* variant: the time of an admit refused for a full window is recorded too
wait_RecordRefused(rl, limits, provider, t) ==
    LET cd == rl.providerCooldownUntil
        ts == rl.providerRequestTimestamps
    IN  IF provider \in DOMAIN cd /\ cd[provider] # 0 /\ t < cd[provider]
        THEN [allowed |-> FALSE, reason |-> "cooldown", rl |-> rl]
        ELSE IF provider \notin DOMAIN limits
        THEN [allowed |-> TRUE, reason |-> "No rate limit configured", rl |-> rl]
        ELSE LET timestamps == IF provider \in DOMAIN ts THEN ts[provider] ELSE <<>>
                 oneMinuteAgo == t - 60000
                 recentTimestamps == SelectSeq(timestamps, LAMBDA x : x > oneMinuteAgo)
                 recorded == [rl EXCEPT !.providerRequestTimestamps =
                                 MapSet(@, provider, Append(recentTimestamps, t))]
             IN  IF Len(recentTimestamps) >= limits[provider].requestsPerMinute
                 THEN [allowed |-> FALSE, reason |-> "rate limit reached",
                       rl |-> enterCooldown(recorded, limits, provider, t)]
                 ELSE [allowed |-> TRUE, reason |-> "Request allowed", rl |-> recorded]

\* variant: an allowed admit is not recorded in the window before wait returns
wait_NoRecord(rl, limits, provider, t) ==
    LET cd == rl.providerCooldownUntil
        ts == rl.providerRequestTimestamps
    IN  IF provider \in DOMAIN cd /\ cd[provider] # 0 /\ t < cd[provider]
        THEN [allowed |-> FALSE, reason |-> "cooldown", rl |-> rl]
        ELSE IF provider \notin DOMAIN limits
        THEN [allowed |-> TRUE, reason |-> "No rate limit configured", rl |-> rl]
        ELSE LET timestamps == IF provider \in DOMAIN ts THEN ts[provider] ELSE <<>>
                 oneMinuteAgo == t - 60000
                 recentTimestamps == SelectSeq(timestamps, LAMBDA x : x > oneMinuteAgo)
             IN  IF Len(recentTimestamps) >= limits[provider].requestsPerMinute
                 THEN [allowed |-> FALSE, reason |-> "rate limit reached",
                       rl |-> enterCooldown(rl, limits, provider, t)]
                 ELSE [allowed |-> TRUE, reason |-> "Request allowed", rl |-> rl]

wait(rl, limits, provider, t) ==
    LET cd == rl.providerCooldownUntil
        ts == rl.providerRequestTimestamps
    IN  IF provider \in DOMAIN cd /\ cd[provider] # 0 /\ t < cd[provider]
        THEN [allowed |-> FALSE, reason |-> "cooldown", rl |-> rl]
        ELSE IF provider \notin DOMAIN limits
        THEN [allowed |-> TRUE, reason |-> "No rate limit configured", rl |-> rl]
        ELSE LET timestamps == IF provider \in DOMAIN ts THEN ts[provider] ELSE <<>>
                 oneMinuteAgo == t - 60000
                 recentTimestamps == SelectSeq(timestamps, LAMBDA x : x > oneMinuteAgo)
             IN  IF Len(recentTimestamps) >= limits[provider].requestsPerMinute
                 THEN [allowed |-> FALSE, reason |-> "rate limit reached",
                       rl |-> enterCooldown(rl, limits, provider, t)]
                 ELSE [allowed |-> TRUE, reason |-> "Request allowed",
                       rl |-> [rl EXCEPT !.providerRequestTimestamps =
                                  MapSet(@, provider, Append(recentTimestamps, t))]]

(* history bookkeeping for one wait call *)
AdmitRecord(rlBefore, provider, t, r, trip) ==
    [provider |-> provider, at |-> t, allowed |-> r.allowed, reason |-> r.reason,
     before |-> rlBefore, after |-> r.rl, trip |-> trip]

NoTrip == -1

----------------------------------------------------------------------------
(* Role configuration and agent registry *)

RolesA ==
    [r \in {"director", "coder"} |->
        IF r = "director"
        THEN [providers |->
                <<Provider("gemini", <<"gemini-2.5-pro">>, 2),
                  Provider("groq", <<"mixtral-8x7b", "llama-3.3-70b-versatile">>, 1)>>]
        ELSE [providers |->
                <<Provider("groq", <<"qwen/qwen3-32b">>, 1),
                  Provider("perplexity", <<"perplexity-sonar">>, 2),
                  Provider("groq", <<"llama-3.3-70b-versatile">>, 3)>>]]

Configs == {[roles |-> RolesA, rateLimits |-> RateLimitsA]}

KeySets == {{"groq", "gemini", "perplexity"}}

(* String.prototype.includes on the model names of the configuration *)
Includes(modelName, sub) ==
    CASE modelName = "llama-3.3-70b-versatile" -> sub = "llama"
      [] modelName = "qwen/qwen3-32b" -> sub = "qwen"
      [] modelName = "gemini-2.5-pro" -> sub = "pro"
      [] modelName = "moonshotai/kimi-k2" -> sub = "kimi"
      [] OTHER -> FALSE

initializeAgents(cfg, keys) ==
    LET requiredProviders ==
            {cfg.roles[r].providers[j].name :
                <<r, j>> \in {<<r, j>> \in (DOMAIN cfg.roles) \X (1..8) :
                                 j <= Len(cfg.roles[r].providers)}}
        has(p) == p \in requiredProviders /\ p \in keys
    IN  (IF has("groq") THEN {"groq-qwen", "groq-llama", "groq-kimi"} ELSE {})
        \cup (IF has("gemini") THEN {"gemini-flash", "gemini-pro"} ELSE {})
        \cup (IF has("perplexity") THEN {"perplexity"} ELSE {})
        \cup (IF has("portkey") THEN {"portkey"} ELSE {})

getAgentForModel(registry, provider, modelName) ==
    LET get(key) == IF key \in registry THEN key ELSE NoAgent
    IN  CASE provider = "groq" ->
                IF Includes(modelName, "qwen") THEN get("groq-qwen")
                ELSE IF Includes(modelName, "llama") THEN get("groq-llama")
                ELSE IF Includes(modelName, "kimi") THEN get("groq-kimi")
                ELSE NoAgent
          [] provider = "perplexity" -> get("perplexity")
          [] provider = "portkey" -> get("portkey")
          [] provider = "gemini" ->
                IF Includes(modelName, "pro") THEN get("gemini-pro")
                ELSE get("gemini-flash")
          [] OTHER -> NoAgent

----------------------------------------------------------------------------
(* Array.prototype.sort((a, b) => a.priority - b.priority): stable *)

RECURSIVE InsertByPriority(_, _)
InsertByPriority(sorted, x) ==
    IF sorted = <<>> THEN <<x>>
    ELSE IF sorted[Len(sorted)].priority <= x.priority THEN Append(sorted, x)
    ELSE Append(InsertByPriority(SubSeq(sorted, 1, Len(sorted) - 1), x),
                sorted[Len(sorted)])

\* variant: providers of equal priority come out in the reverse of their
\* declaration order
RECURSIVE SortByPriority_TiesReversed(_)
SortByPriority_TiesReversed(providers) ==
    IF providers = <<>> THEN <<>>
    ELSE LET x == Head(providers)
             rest == SortByPriority_TiesReversed(Tail(providers))
         IN  SelectSeq(rest, LAMBDA y : y.priority <= x.priority)
                 \o <<x>> \o SelectSeq(rest, LAMBDA y : y.priority > x.priority)

RECURSIVE SortByPriority(_)
SortByPriority(providers) ==
    IF providers = <<>> THEN <<>>
    ELSE InsertByPriority(SortByPriority(SubSeq(providers, 1, Len(providers) - 1)),
                          providers[Len(providers)])

(* flatMap(provider => provider.models.map(model => ({model, provider}))) *)
RECURSIVE FlatMapModels(_)
FlatMapModels(providers) ==
    IF providers = <<>> THEN <<>>
    ELSE LET p == Head(providers)
         IN  [j \in 1..Len(p.models) |-> [model |-> p.models[j], provider |-> p.name]]
             \o FlatMapModels(Tail(providers))

----------------------------------------------------------------------------
(* Tasks, steps, plans, responses, errors *)

Procs == {1, 2}

Task(p) == [id |-> IF p = 1 THEN "task-1" ELSE "task-2",
            description |-> IF p = 1 THEN "Create hello world" ELSE "Write a poem"]

Step(stepId, agent, action, input, dependencies) ==
    [stepId |-> stepId, agent |-> agent, action |-> action, input |-> input,
     dependencies |-> dependencies]

NoStep == Step("", "", "", <<>>, <<>>)

\* the deserialized steps of the structured answer of the director; the first
\* step declares a dependency on the second
TwoSteps == <<Step("1", "coder", "Write code", <<"write the code">>, <<"2">>),
              Step("2", "coder", "Write tests", <<"write the tests">>, <<>>)>>

DirectPlans == {TwoSteps}

Costs == {0, 2}

AgentResponse(success, result, model, cost) ==
    [success |-> success, result |-> result,
     metadata |-> [model |-> model, cost |-> cost]]

NoResponse == AgentResponse(FALSE, <<>>, "", 0)

Error(message) == [message |-> message]

NoError == Error(<<>>)

TypeError == Error(<<"TypeError: Cannot set properties of null">>)

Names(error, word) == \E j \in 1..Len(error.message) : error.message[j] = word

----------------------------------------------------------------------------
(* Texts.  A text is a sequence of tokens; white space and the optional json
   tag of a fence marker are part of the tokens.  Kinds: "prose" (no brace, no
   fence marker), "fence" (three backquotes), "{", "}", "[", "]", "key" (a
   member name with its colon), "string" (a quoted string), "fields" (the
   members of a step object, named by its stepId). *)

TokV(kind, v) == [k |-> kind, v |-> v]

Tok(kind) == TokV(kind, "")

\* the step objects a plan answer can hold
StepObjects == {TwoSteps[1], TwoSteps[2]}

(* the values JSON.parse can return here: an object with a member steps (an
   array of step objects, or a string) or without one *)
PlanData(present, kind, items, str) ==
    [present |-> present, kind |-> kind, items |-> items, str |-> str]

PlanDatas ==
    {PlanData(TRUE, "array", TwoSteps, ""),
     PlanData(TRUE, "array", <<TwoSteps[2], TwoSteps[1]>>, ""),
     PlanData(TRUE, "array", <<>>, ""),
     PlanData(TRUE, "string", <<>>, "later"),
     PlanData(TRUE, "string", <<>>, ""),
     PlanData(FALSE, "", <<>>, "")}

NoData == PlanData(FALSE, "", <<>>, "")

RECURSIVE SerializeSteps(_)
SerializeSteps(items) ==
    IF items = <<>> THEN <<>>
    ELSE <<Tok("{"), TokV("fields", Head(items).stepId), Tok("}")>>
            \o SerializeSteps(Tail(items))

(* the JSON text of a value: JSON.parse accepts exactly these texts *)
Serialize(d) ==
    <<Tok("{")>>
    \o (IF ~d.present THEN <<TokV("key", "reasoning"), TokV("string", "none")>>
        ELSE <<TokV("key", "steps")>>
             \o (IF d.kind = "array"
                 THEN <<Tok("[")>> \o SerializeSteps(d.items) \o <<Tok("]")>>
                 ELSE <<TokV("string", d.str)>>))
    \o <<Tok("}")>>

(* JSON.parse: the value whose text this is, or a SyntaxError *)
JSONparse(jsonString) ==
    IF \E d \in PlanDatas : Serialize(d) = jsonString
    THEN [ok |-> TRUE, data |-> CHOOSE d \in PlanDatas : Serialize(d) = jsonString]
    ELSE [ok |-> FALSE, data |-> NoData]

Is(text, j, kind) == j \in 1..Len(text) /\ text[j].k = kind

Min(S) == CHOOSE x \in S : \A y \in S : x <= y

Max(S) == CHOOSE x \in S : \A y \in S : x >= y

\* variant: the group is matched greedily, up to the last closing brace that
\* a fence marker follows
codeBlockMatch_Greedy(text) ==
    LET closes(a) == {b \in (a + 2)..Len(text) : Is(text, b, "}") /\ Is(text, b + 1, "fence")}
        opens == {a \in 1..Len(text) :
                     Is(text, a, "fence") /\ Is(text, a + 1, "{") /\ closes(a) # {}}
    IN  IF opens = {} THEN <<>>
        ELSE SubSeq(text, Min(opens) + 1, Max(closes(Min(opens))))

(* planText.match(/```(?:json)?\s*(\{[\s\S]*?\})\s*```/): group 1 of the
   leftmost match, the shortest one from there; <<>> when there is none *)
codeBlockMatch(text) ==
    LET closes(a) == {b \in (a + 2)..Len(text) : Is(text, b, "}") /\ Is(text, b + 1, "fence")}
        opens == {a \in 1..Len(text) :
                     Is(text, a, "fence") /\ Is(text, a + 1, "{") /\ closes(a) # {}}
    IN  IF opens = {} THEN <<>>
        ELSE SubSeq(text, Min(opens) + 1, Min(closes(Min(opens))))

(* planText.match(/\{[\s\S]*\}/): from the first opening brace that has a
   closing one after it to the last closing brace *)
simpleMatch(text) ==
    LET opens == {a \in 1..Len(text) :
                     Is(text, a, "{") /\ \E b \in (a + 1)..Len(text) : Is(text, b, "}")}
    IN  IF opens = {} THEN <<>>
        ELSE SubSeq(text, Min(opens),
                    Max({b \in 1..Len(text) : Is(text, b, "}")}))

\* variant: the fallback step is given to a role "executor"
FallbackPlan_ExecutorRole(task) ==
    [taskId |-> task.id,
     steps |-> <<Step("1", "executor", "Complete task", <<"Task: ", task.description>>, <<>>)>>,
     reasoning |-> "Fallback single-step plan (JSON parsing failed)"]

FallbackPlan(task) ==
    [taskId |-> task.id,
     steps |-> <<Step("1", "coder", "Complete task", <<"Task: ", task.description>>, <<>>)>>,
     reasoning |-> "Fallback single-step plan (JSON parsing failed)"]

\* variant: steps is only tested for presence, not for being an array
parsePlan_NoArrayCheck(planText, task) ==
    LET jsonString == IF codeBlockMatch(planText) # <<>> THEN codeBlockMatch(planText)
                      ELSE simpleMatch(planText)
        parsed == JSONparse(jsonString)
        planData == parsed.data
    IN  IF jsonString = <<>> THEN FallbackPlan(task)
        ELSE IF ~parsed.ok THEN FallbackPlan(task)
        ELSE IF ~planData.present
                \/ (planData.kind = "string" /\ planData.str = "")
        THEN FallbackPlan(task)
        ELSE [taskId |-> task.id, steps |-> planData.items,
              reasoning |-> "Auto-generated parallel plan"]

(* BradyAI.parsePlan *)
parsePlan(planText, task) ==
    LET jsonString == IF codeBlockMatch(planText) # <<>> THEN codeBlockMatch(planText)
                      ELSE simpleMatch(planText)
        parsed == JSONparse(jsonString)
        planData == parsed.data
    IN  IF jsonString = <<>> THEN FallbackPlan(task)
        ELSE IF ~parsed.ok THEN FallbackPlan(task)
        ELSE IF ~planData.present
                \/ (planData.kind = "string" /\ planData.str = "")
                \/ planData.kind # "array"
        THEN FallbackPlan(task)
        ELSE [taskId |-> task.id, steps |-> planData.items,
              reasoning |-> "Auto-generated parallel plan"]

Fenced(body) == <<Tok("fence")>> \o body \o <<Tok("fence")>>

Prose == <<TokV("prose", "I cannot help with that.")>>

\* the answers of the director to the planning prompt
PlanTexts == {Fenced(Serialize(PlanData(TRUE, "array", TwoSteps, ""))), Prose}

----------------------------------------------------------------------------
(* Call frames: the locals of one call of a public operation.  History kept
   in the frame: log (the events of the call, in order), progress (what the
   call wrote into the progress slot, in order) and planText (the text the
   planning step returned). *)

IdleFrame ==
    [op |-> "none", pc |-> "idle", task |-> Task(1), phase |-> "none",
     plan |-> <<>>, i |-> 0, step |-> NoStep, prioritizedModels |-> <<>>,
     k |-> 0, rateLimitCheck |-> [allowed |-> FALSE, reason |-> ""],
     results |-> <<>>, ret |-> NoResponse, error |-> NoError,
     outcome |-> "none", value |-> Null, log |-> <<>>, progress |-> <<>>,
     planText |-> <<>>]

Ev(f, k, ev) == [phase |-> f.phase, i |-> f.i, step |-> f.step.stepId, k |-> k, ev |-> ev]

(* the effect of one synchronous segment: the frame, the RateLimiter, the role
   configuration, and for the history the wait call the segment made (at most
   one) and the providers whose agent raised a rate-limit signal *)
Bundle(f, rl, roles, admits, tripped) ==
    [frame |-> f, rl |-> rl, roles |-> roles, admits |-> admits, tripped |-> tripped]

\* variant: the terminal error names the role only
NextCandidate_NoStepId(f, k, rl, cfg, t) ==
    IF k > Len(f.prioritizedModels)
    THEN Bundle([f EXCEPT !.pc = "unwind", !.k = k,
                    !.error = Error(<<"[Orchestrator] All models failed for role",
                                      f.step.agent>>),
                    !.log = Append(@, Ev(f, k, "raise"))],
                rl, cfg.roles, <<>>, {})
    ELSE LET provider == f.prioritizedModels[k].provider
             r == wait(rl, cfg.rateLimits, provider, t)
         IN  Bundle([f EXCEPT !.pc = "wait", !.k = k,
                        !.rateLimitCheck = [allowed |-> r.allowed, reason |-> r.reason],
                        !.log = Append(@, Ev(f, k, IF r.allowed THEN "admit" ELSE "refuse"))],
                    r.rl, cfg.roles, <<[provider |-> provider, r |-> r, before |-> rl]>>, {})

\* variant: the loop gives up once a second candidate has failed
NextCandidate_GiveUp(f, k, rl, cfg, t) ==
    IF k > Len(f.prioritizedModels) \/ k > 2
    THEN Bundle([f EXCEPT !.pc = "unwind", !.k = k,
                    !.error = Error(<<"[Orchestrator] All models for role", f.step.agent,
                                      "failed to execute step", f.step.stepId>>),
                    !.log = Append(@, Ev(f, k, "raise"))],
                rl, cfg.roles, <<>>, {})
    ELSE LET provider == f.prioritizedModels[k].provider
             r == wait(rl, cfg.rateLimits, provider, t)
         IN  Bundle([f EXCEPT !.pc = "wait", !.k = k,
                        !.rateLimitCheck = [allowed |-> r.allowed, reason |-> r.reason],
                        !.log = Append(@, Ev(f, k, IF r.allowed THEN "admit" ELSE "refuse"))],
                    r.rl, cfg.roles, <<[provider |-> provider, r |-> r, before |-> rl]>>, {})

\* variant: a candidate whose admit was refused is asked for again
NextCandidate_RetryRefused(f, k, rl, cfg, t) ==
    LET j == IF f.pc = "wait" /\ ~f.rateLimitCheck.allowed /\ k > 1 THEN k - 1 ELSE k
    IN  IF j > Len(f.prioritizedModels)
        THEN Bundle([f EXCEPT !.pc = "unwind", !.k = j,
                        !.error = Error(<<"[Orchestrator] All models for role", f.step.agent,
                                          "failed to execute step", f.step.stepId>>),
                        !.log = Append(@, Ev(f, j, "raise"))],
                    rl, cfg.roles, <<>>, {})
        ELSE LET provider == f.prioritizedModels[j].provider
                 r == wait(rl, cfg.rateLimits, provider, t)
             IN  Bundle([f EXCEPT !.pc = "wait", !.k = j,
                            !.rateLimitCheck = [allowed |-> r.allowed, reason |-> r.reason],
                            !.log = Append(@, Ev(f, j, IF r.allowed THEN "admit" ELSE "refuse"))],
                        r.rl, cfg.roles, <<[provider |-> provider, r |-> r, before |-> rl]>>, {})

(* head of the for-of loop of executeStep at candidate k: rateLimiter.wait is
   called and the function suspends on its await; past the last candidate the
   loop ends and the terminal error is thrown *)
NextCandidate(f, k, rl, cfg, t) ==
    IF k > Len(f.prioritizedModels)
    THEN Bundle([f EXCEPT !.pc = "unwind", !.k = k,
                    !.error = Error(<<"[Orchestrator] All models for role", f.step.agent,
                                      "failed to execute step", f.step.stepId>>),
                    !.log = Append(@, Ev(f, k, "raise"))],
                rl, cfg.roles, <<>>, {})
    ELSE LET provider == f.prioritizedModels[k].provider
             r == wait(rl, cfg.rateLimits, provider, t)
         IN  Bundle([f EXCEPT !.pc = "wait", !.k = k,
                        !.rateLimitCheck = [allowed |-> r.allowed, reason |-> r.reason],
                        !.log = Append(@, Ev(f, k, IF r.allowed THEN "admit" ELSE "refuse"))],
                    r.rl, cfg.roles, <<[provider |-> provider, r |-> r, before |-> rl]>>, {})

\* variant: only a role absent from the configuration is rejected
executeStep_AbsentOnly(f, step, rl, cfg, t) ==
    LET role == step.agent
    IN  IF role \notin DOMAIN cfg.roles
        THEN LET f1 == [f EXCEPT !.step = step, !.prioritizedModels = <<>>, !.k = 0]
             IN  Bundle([f1 EXCEPT !.pc = "unwind",
                            !.error = Error(<<"No models configured for role:", role>>),
                            !.log = Append(@, Ev(f1, 0, "raise"))],
                        rl, cfg.roles, <<>>, {})
        ELSE LET sorted == SortByPriority(cfg.roles[role].providers)
                 roles1 == [cfg.roles EXCEPT ![role].providers = sorted]
                 f1 == [f EXCEPT !.step = step, !.k = 0,
                           !.prioritizedModels = FlatMapModels(sorted)]
             IN  NextCandidate(f1, 1, rl, [cfg EXCEPT !.roles = roles1], t)

(* BradyAI.executeStep, from its entry to its first await *)
executeStep(f, step, rl, cfg, t) ==
    LET role == step.agent
    IN  IF role \notin DOMAIN cfg.roles \/ Len(cfg.roles[role].providers) = 0
        THEN LET f1 == [f EXCEPT !.step = step, !.prioritizedModels = <<>>, !.k = 0]
             IN  Bundle([f1 EXCEPT !.pc = "unwind",
                            !.error = Error(<<"No models configured for role:", role>>),
                            !.log = Append(@, Ev(f1, 0, "raise"))],
                        rl, cfg.roles, <<>>, {})
        ELSE LET sorted == SortByPriority(cfg.roles[role].providers)
                 roles1 == [cfg.roles EXCEPT ![role].providers = sorted]
                 f1 == [f EXCEPT !.step = step, !.k = 0,
                           !.prioritizedModels = FlatMapModels(sorted)]
             IN  NextCandidate(f1, 1, rl, [cfg EXCEPT !.roles = roles1], t)

----------------------------------------------------------------------------
(* Initial state: the BradyAI constructor has run *)

Init ==
    /\ now = 0
    /\ modelConfig \in Configs
    /\ apiKeys \in KeySets
    /\ agents = initializeAgents(modelConfig, apiKeys)
    /\ rateLimiter = [providerRequestTimestamps |-> EmptyMap,
                      providerCooldownUntil |-> EmptyMap]
    /\ taskHistory = <<>>
    /\ currentTaskProgress = Null
    /\ calls = [p \in Procs |-> IdleFrame]
    /\ admitLog = [p \in Providers |-> <<>>]
    /\ lastAdmit = Null
    /\ trips = [p \in Providers |-> NoTrip]
    /\ responses = 0
    /\ harnessCalls = 0

(* the shared state after a synchronous segment of call p *)
Apply(p, b) ==
    /\ calls' = [calls EXCEPT ![p] = b.frame]
    /\ rateLimiter' = b.rl
    /\ modelConfig' = [modelConfig EXCEPT !.roles = b.roles]
    /\ trips' = [x \in Providers |-> IF x \in b.tripped THEN now ELSE trips[x]]
    /\ IF b.admits = <<>>
       THEN UNCHANGED <<admitLog, lastAdmit>>
       ELSE LET a == b.admits[1]
            IN  /\ admitLog' = IF a.r.allowed
                               THEN [admitLog EXCEPT ![a.provider] = Append(@, now)]
                               ELSE admitLog
                /\ lastAdmit' = AdmitRecord(a.before, a.provider, now, a.r,
                                            trips'[a.provider])

(* BradyAI.generateSummary up to the await inside executeStep *)
generateSummary(f, rl, cfg, t) ==
    LET summaryRole == IF "summarizer" \in DOMAIN cfg.roles THEN "summarizer" ELSE "director"
    IN  executeStep([f EXCEPT !.phase = "summary"],
                    Step("final-summary", summaryRole, "Generate task summary", <<"summaryPrompt">>, <<>>), rl, cfg, t)

\* variant: the steps that declare no dependencies run first
DependenciesFirst(plan) ==
    SelectSeq(plan, LAMBDA st : st.dependencies = <<>>)
        \o SelectSeq(plan, LAMBDA st : st.dependencies # <<>>)

PlanLoop_DependenciesFirst(f, i, rl, cfg, t) ==
    IF i <= Len(f.plan)
    THEN executeStep([f EXCEPT !.phase = "steps", !.i = i],
                     DependenciesFirst(f.plan)[i], rl, cfg, t)
    ELSE generateSummary([f EXCEPT !.i = i], rl, cfg, t)

(* the for loop of BradyAI.executePlan at index i (1-based), up to the next await *)
PlanLoop(f, i, rl, cfg, t) ==
    IF i <= Len(f.plan)
    THEN executeStep([f EXCEPT !.phase = "steps", !.i = i], f.plan[i], rl, cfg, t)
    ELSE generateSummary([f EXCEPT !.i = i], rl, cfg, t)

(* BradyAI.executeTask: entry, createPlan, executeStep of the director step *)
CallExecuteTask(p) ==
    /\ calls[p].pc = "idle"
    /\ LET f == [IdleFrame EXCEPT !.op = "executeTask", !.task = Task(p), !.phase = "plan",
                                  !.progress = <<"Planning">>]
       IN  Apply(p, executeStep(f, Step("0-plan", "director", "Create orchestration plan",
                                        <<"planPrompt">>, <<>>),
                                rateLimiter, modelConfig, now))
    /\ currentTaskProgress' = [taskId |-> Task(p).id, totalSteps |-> 0,
                               completedSteps |-> 0, status |-> "Planning"]
    /\ UNCHANGED <<now, apiKeys, agents, taskHistory, responses, harnessCalls>>

(* BradyAI.executePlan called directly (the execute_plan tool) *)
CallExecutePlan(p, steps) ==
    /\ calls[p].pc = "idle"
    /\ LET f == [IdleFrame EXCEPT !.op = "executePlan", !.task = Task(p), !.plan = steps]
       IN  Apply(p, PlanLoop(f, 1, rateLimiter, modelConfig, now))
    /\ UNCHANGED <<now, apiKeys, agents, taskHistory, currentTaskProgress, responses,
                       harnessCalls>>

\* variant: the question is run as a plan of one step through executePlan
CallAskDirector_AsPlan(p) ==
    /\ calls[p].pc = "idle"
    /\ LET f == [IdleFrame EXCEPT !.op = "askDirector",
                    !.task = [id |-> "direct-ask", description |-> "question"],
                    !.plan = <<Step("direct-question", "director", "Answer user question",
                                    <<"prompt">>, <<>>)>>]
       IN  Apply(p, PlanLoop(f, 1, rateLimiter, modelConfig, now))
    /\ UNCHANGED <<now, apiKeys, agents, taskHistory, currentTaskProgress, responses,
                       harnessCalls>>

(* BradyAI.askDirector *)
CallAskDirector(p) ==
    /\ calls[p].pc = "idle"
    /\ LET f == [IdleFrame EXCEPT !.op = "askDirector", !.phase = "ask",
                    !.task = [id |-> "direct-ask", description |-> "question"]]
       IN  Apply(p, executeStep(f, Step("direct-question", "director", "Answer user question",
                                        <<"prompt">>, <<>>),
                                rateLimiter, modelConfig, now))
    /\ UNCHANGED <<now, apiKeys, agents, taskHistory, currentTaskProgress, responses,
                       harnessCalls>>

(* executeStep resumes after `await this.rateLimiter.wait(providerName)` *)
ResumeWait(p) ==
    LET f == calls[p]
        m == f.prioritizedModels[f.k]
    IN  /\ f.pc = "wait"
        /\ IF ~f.rateLimitCheck.allowed
           THEN Apply(p, NextCandidate(f, f.k + 1, rateLimiter, modelConfig, now))
           ELSE IF getAgentForModel(agents, m.provider, m.model) = NoAgent
           THEN Apply(p, NextCandidate([f EXCEPT !.log = Append(@, Ev(f, f.k, "noagent"))],
                                       f.k + 1, rateLimiter, modelConfig, now))
           ELSE Apply(p, Bundle([f EXCEPT !.pc = "exec",
                                    !.log = Append(@, Ev(f, f.k, "invoke"))],
                                rateLimiter, modelConfig.roles, <<>>, {}))
        /\ UNCHANGED <<now, apiKeys, agents, taskHistory, currentTaskProgress, responses,
                       harnessCalls>>

\* variant: the total keeps the cost of the last response only
SumCost_LastOnly(results) ==
    IF results = <<>> THEN 0 ELSE results[Len(results)].metadata.cost

(* results.reduce((sum, result) => sum + (result.metadata.cost || 0), 0) *)
RECURSIVE SumCost(_)
SumCost(results) ==
    IF results = <<>> THEN 0
    ELSE results[1].metadata.cost + SumCost(Tail(results))

\* variant: the response of the summary step is pushed onto the results
BuildTaskResult_PushSummary(results, summary) ==
    [results |-> Append(results, summary),
     totalCost |-> SumCost(results),
     summary |-> summary.result]

(* executePlan lines 355-368: the TaskResult (totalTime is left out) *)
BuildTaskResult(results, summary) ==
    [results |-> results,
     totalCost |-> SumCost(results),
     summary |-> summary.result]

\* variant: the new entry is put in front of the others
HistoryPush_Unshift(history, task, result, t) ==
    <<[task |-> task, result |-> result, timestamp |-> t]>> \o history

(* this.taskHistory.push({task, result: taskResult, timestamp: new Date()}) *)
HistoryPush(history, task, result, t) ==
    Append(history, [task |-> task, result |-> result, timestamp |-> t])

Outcomes == {"ok", "fail", "throw", "throw429"}

(* the text of a response, by the kind of step that asked for it *)
SummaryText == <<TokV("prose", "Summary of what was accomplished.")>>

StepText == <<TokV("prose", "step output")>>

\* variant: the catch block only logs the error
catchError_LogOnly(outcome, rl, limits, provider, t) == rl

(* the catch block of executeStep, lines 456-468 *)
catchError(outcome, rl, limits, provider, t) ==
    IF outcome = "throw429" THEN enterCooldown(rl, limits, provider, t) ELSE rl

\* variant: a successful response is stored but the loop goes on to the next
\* candidate when there is one
Settle_NoReturn(f, outcome, response, rl, cfg, t) ==
    LET m == f.prioritizedModels[f.k]
        f1 == [f EXCEPT !.log = Append(@, Ev(f, f.k, outcome))]
        signals == IF outcome = "throw429" THEN {m.provider} ELSE {}
    IN  IF outcome = "ok" /\ f.k = Len(f.prioritizedModels)
        THEN Bundle([f1 EXCEPT !.pc = "ret", !.ret = response], rl, cfg.roles, <<>>, {})
        ELSE IF outcome = "ok"
        THEN NextCandidate([f1 EXCEPT !.ret = response], f.k + 1, rl, cfg, t)
        ELSE LET b == NextCandidate(f1, f.k + 1,
                                    IF outcome \in {"throw", "throw429"}
                                    THEN catchError(outcome, rl, cfg.rateLimits, m.provider, t)
                                    ELSE rl,
                                    cfg, t)
             IN  [b EXCEPT !.tripped = signals]

\* variant: the response of the agent is returned whether or not it reports
\* success
Settle_ReturnAny(f, outcome, response, rl, cfg, t) ==
    LET m == f.prioritizedModels[f.k]
        f1 == [f EXCEPT !.log = Append(@, Ev(f, f.k, outcome))]
        signals == IF outcome = "throw429" THEN {m.provider} ELSE {}
    IN  IF outcome \in {"ok", "fail"}
        THEN Bundle([f1 EXCEPT !.pc = "ret", !.ret = response], rl, cfg.roles, <<>>, {})
        ELSE LET b == NextCandidate(f1, f.k + 1,
                                    catchError(outcome, rl, cfg.rateLimits, m.provider, t),
                                    cfg, t)
             IN  [b EXCEPT !.tripped = signals]

(* agent.execute(step.input, task.type) settles: the rest of the loop body of
   executeStep, up to the return or to the next await *)
Settle(f, outcome, response, rl, cfg, t) ==
    LET m == f.prioritizedModels[f.k]
        f1 == [f EXCEPT !.log = Append(@, Ev(f, f.k, outcome))]
        signals == IF outcome = "throw429" THEN {m.provider} ELSE {}
    IN  IF outcome = "ok"
        THEN Bundle([f1 EXCEPT !.pc = "ret", !.ret = response], rl, cfg.roles, <<>>, {})
        ELSE LET b == NextCandidate(f1, f.k + 1,
                                    IF outcome \in {"throw", "throw429"}
                                    THEN catchError(outcome, rl, cfg.rateLimits, m.provider, t)
                                    ELSE rl,
                                    cfg, t)
             IN  [b EXCEPT !.tripped = signals]

AgentResponds(p, outcome, text, cost) ==
    LET f == calls[p]
        m == f.prioritizedModels[f.k]
    IN  /\ f.pc = "exec"
        /\ responses < MaxResponses
        /\ responses' = responses + 1
        /\ text \in (CASE outcome # "ok" -> {<<>>}
                       [] f.phase = "plan" -> PlanTexts
                       [] f.phase = "summary" -> {SummaryText}
                       [] OTHER -> {StepText})
        /\ Apply(p, Settle(f, outcome, AgentResponse(outcome = "ok", text, m.model, cost),
                           rateLimiter, modelConfig, now))
        /\ UNCHANGED <<now, apiKeys, agents, taskHistory, currentTaskProgress, harnessCalls>>

(* the caller of executeStep resumes with the returned response *)
StepReturns(p) ==
    LET f == calls[p]
    IN  /\ f.pc = "ret"
        /\ CASE f.phase = "plan" ->
                  \* createPlan returns parsePlan(...); executeTask lines 314-319
                  LET plan == parsePlan(f.ret.result, f.task)
                  IN  IF currentTaskProgress = Null
                      THEN /\ calls' = [calls EXCEPT ![p] =
                                  [f EXCEPT !.pc = "done", !.outcome = "raised",
                                            !.error = TypeError,
                                            !.progress = Append(@, "null")]]
                           /\ UNCHANGED <<rateLimiter, modelConfig, admitLog, lastAdmit, trips,
                                          currentTaskProgress, taskHistory>>
                      ELSE /\ Apply(p, PlanLoop([f EXCEPT !.plan = plan.steps, !.results = <<>>,
                                                          !.planText = f.ret.result,
                                                          !.progress = Append(@, "Executing")],
                                                1, rateLimiter, modelConfig, now))
                           /\ currentTaskProgress' =
                                  [currentTaskProgress EXCEPT
                                      !.totalSteps = Len(plan.steps), !.status = "Executing"]
                           /\ UNCHANGED taskHistory
             [] f.phase = "steps" ->
                  \* executePlan lines 337-348, then the next iteration
                  /\ Apply(p, PlanLoop([f EXCEPT !.results = Append(@, f.ret)],
                                       f.i + 1, rateLimiter, modelConfig, now))
                  /\ currentTaskProgress' =
                        IF currentTaskProgress # Null
                        THEN [currentTaskProgress EXCEPT !.completedSteps = @ + 1]
                        ELSE currentTaskProgress
                  /\ UNCHANGED taskHistory
             [] f.phase = "summary" ->
                  \* executePlan lines 361-384
                  LET taskResult == BuildTaskResult(f.results, f.ret)
                  IN  /\ taskHistory' = HistoryPush(taskHistory, f.task, taskResult, now)
                      /\ calls' = [calls EXCEPT ![p] =
                            [f EXCEPT !.pc = IF f.op = "executeTask" THEN "planret" ELSE "done",
                                      !.outcome = IF f.op = "executeTask" THEN "none"
                                                  ELSE "returned",
                                      !.value = taskResult]]
                      /\ UNCHANGED <<rateLimiter, modelConfig, admitLog, lastAdmit, trips,
                                     currentTaskProgress>>
             [] f.phase = "ask" ->
                  /\ calls' = [calls EXCEPT ![p] =
                        [f EXCEPT !.pc = "done", !.outcome = "returned", !.value = f.ret]]
                  /\ UNCHANGED <<rateLimiter, modelConfig, admitLog, lastAdmit, trips,
                                 currentTaskProgress, taskHistory>>
        /\ UNCHANGED <<now, apiKeys, agents, responses, harnessCalls>>

(* executeTask resumes after `return await this.executePlan(plan, task)`: finally *)
ExecuteTaskReturns(p) ==
    /\ calls[p].pc = "planret"
    /\ calls' = [calls EXCEPT ![p] = [@ EXCEPT !.pc = "done", !.outcome = "returned",
                                                !.progress = Append(@, "null")]]
    /\ currentTaskProgress' = Null
    /\ UNCHANGED <<now, modelConfig, apiKeys, agents, rateLimiter, taskHistory,
                   admitLog, lastAdmit, trips, responses, harnessCalls>>

\* variant: a failed plan step makes executePlan return what it has so far
Unwind_PartialResult(p) ==
    LET f == calls[p]
        partial == [results |-> f.results, totalCost |-> SumCost(f.results),
                    summary |-> <<>>]
    IN  /\ f.pc = "unwind"
        /\ IF f.phase = "steps"
           THEN /\ calls' = [calls EXCEPT ![p] =
                       [f EXCEPT !.pc = "done", !.outcome = "returned", !.value = partial]]
                /\ taskHistory' = Append(taskHistory, [task |-> f.task, result |-> partial,
                                                        timestamp |-> now])
           ELSE /\ calls' = [calls EXCEPT ![p] =
                       [f EXCEPT !.pc = "done", !.outcome = "raised"]]
                /\ UNCHANGED taskHistory
        /\ currentTaskProgress' = IF f.op = "executeTask" THEN Null ELSE currentTaskProgress
        /\ UNCHANGED <<now, modelConfig, apiKeys, agents, rateLimiter,
                       admitLog, lastAdmit, trips, responses, harnessCalls>>

(* the error thrown by executeStep reaches the public operation: the catch
   blocks of executePlan rethrow it; executeTask marks the slot Failed, then
   its finally clears the slot *)
Unwind(p) ==
    LET f == calls[p]
    IN  /\ f.pc = "unwind"
        /\ IF f.op = "executeTask"
           THEN /\ calls' = [calls EXCEPT ![p] =
                       [f EXCEPT !.pc = "done", !.outcome = "raised",
                                 !.error = IF currentTaskProgress = Null
                                           THEN TypeError ELSE f.error,
                                 !.progress = IF currentTaskProgress = Null
                                              THEN Append(@, "null")
                                              ELSE @ \o <<"Failed", "null">>]]
                /\ currentTaskProgress' = Null
           ELSE /\ calls' = [calls EXCEPT ![p] =
                       [f EXCEPT !.pc = "done", !.outcome = "raised"]]
                /\ UNCHANGED currentTaskProgress
        /\ UNCHANGED <<now, modelConfig, apiKeys, agents, rateLimiter, taskHistory,
                       admitLog, lastAdmit, trips, responses, harnessCalls>>

(* time passes: the clock advances by whole TickSteps, so only while a network
   call is in flight or between calls; the hops between two awaits of the same
   turn take no time at this resolution *)
Tick(d) ==
    /\ now + d <= MaxTime
    /\ \/ \E p \in Procs : calls[p].pc \in {"exec", "execPortkey"}
       \/ \A p \in Procs : calls[p].pc \in {"idle", "done"}
    /\ now' = now + d
    /\ UNCHANGED <<modelConfig, apiKeys, agents, rateLimiter, taskHistory,
                   currentTaskProgress, calls, admitLog, lastAdmit, trips, responses,
          harnessCalls>>

(* RateLimiter unit harness: wait and enterCooldown called directly *)
RLAdmit(provider) ==
    /\ harnessCalls < MaxCalls
    /\ harnessCalls' = harnessCalls + 1
    /\ LET r == wait(rateLimiter, modelConfig.rateLimits, provider, now)
       IN  /\ rateLimiter' = r.rl
           /\ admitLog' = IF r.allowed
                          THEN [admitLog EXCEPT ![provider] = Append(@, now)]
                          ELSE admitLog
           /\ lastAdmit' = AdmitRecord(rateLimiter, provider, now, r, trips[provider])
    /\ UNCHANGED <<now, modelConfig, apiKeys, agents, taskHistory, currentTaskProgress,
                   calls, trips, responses>>

RLEnterCooldown(provider) ==
    /\ harnessCalls < MaxCalls
    /\ harnessCalls' = harnessCalls + 1
    /\ rateLimiter' = enterCooldown(rateLimiter, modelConfig.rateLimits, provider, now)
    /\ trips' = [trips EXCEPT ![provider] = now]
    /\ UNCHANGED <<now, modelConfig, apiKeys, agents, taskHistory, currentTaskProgress,
                   calls, admitLog, lastAdmit, responses>>

RLTick(d) ==
    /\ now + d <= MaxRLTime
    /\ now' = now + d
    /\ UNCHANGED <<modelConfig, apiKeys, agents, rateLimiter, taskHistory,
                   currentTaskProgress, calls, admitLog, lastAdmit, trips,
                   responses, harnessCalls>>

RLProviders == {"groq", "gemini", "perplexity"}

NextRL ==
    \/ \E provider \in RLProviders : RLAdmit(provider)
    \/ \E provider \in RLProviders : RLEnterCooldown(provider)
    \/ \E d \in RLTickSteps : RLTick(d)

SpecRL == Init /\ [][NextRL]_vars

(* one caller at a time: the command line and the test program *)
Callers == {1}

Next ==
    \/ \E p \in Callers : CallExecuteTask(p)
    \/ \E p \in Callers : \E steps \in DirectPlans : CallExecutePlan(p, steps)
    \/ \E p \in Callers : CallAskDirector(p)
    \/ \E p \in Callers : ResumeWait(p)
    \/ \E p \in Callers : \E o \in Outcomes : \E text \in PlanTexts \cup {<<>>, SummaryText, StepText} :
          \E c \in Costs : AgentResponds(p, o, text, c)
    \/ \E p \in Callers : StepReturns(p)
    \/ \E p \in Callers : ExecuteTaskReturns(p)
    \/ \E p \in Callers : Unwind(p)
    \/ \E d \in TickSteps : Tick(d)

Spec == Init /\ [][Next]_vars

(* the event loop runs every continuation that is ready, and every agent call
   settles (as long as the model has responses left to give).  StepReturns(p)
   is enabled exactly when the call is at "ret" and is the only action that
   takes it from there, so its weak fairness is written as: the call is not
   at "ret" for ever *)
Fairness ==
    \A p \in Callers :
        /\ WF_vars(ResumeWait(p))
        /\ WF_vars(\E o \in Outcomes : \E text \in PlanTexts \cup {<<>>, SummaryText, StepText} :
                      \E c \in Costs : AgentResponds(p, o, text, c))
        /\ []<>(calls[p].pc # "ret")
        /\ WF_vars(ExecuteTaskReturns(p))
        /\ WF_vars(Unwind(p))

SpecLive == Init /\ [][Next]_vars /\ Fairness

(* a caller that makes one call after the other (the test program): the
   second call starts when the first one has returned or raised *)
Sequential(p) ==
    /\ p = 2 => calls[1].pc = "done"
    /\ \A q \in Procs \ {p} : calls[q].pc \in {"idle", "done"}

SeqExecuteTask(p) == Sequential(p) /\ CallExecuteTask(p)

SeqExecutePlan(p, steps) == Sequential(p) /\ CallExecutePlan(p, steps)

SeqAskDirector(p) == Sequential(p) /\ CallAskDirector(p)

SeqOutcomes == {"ok", "fail"}

SeqCosts == {2}

NextSeq ==
    \/ \E p \in Procs : SeqExecuteTask(p)
    \/ \E p \in Procs : \E steps \in DirectPlans : SeqExecutePlan(p, steps)
    \/ \E p \in Procs : SeqAskDirector(p)
    \/ \E p \in Procs : ResumeWait(p)
    \/ \E p \in Procs : \E o \in SeqOutcomes : \E text \in PlanTexts \cup {<<>>, SummaryText, StepText} :
          \E c \in SeqCosts : AgentResponds(p, o, text, c)
    \/ \E p \in Procs : StepReturns(p)
    \/ \E p \in Procs : ExecuteTaskReturns(p)
    \/ \E p \in Procs : Unwind(p)
    \/ \E d \in TickSteps : Tick(d)

SpecSeq == Init /\ [][NextSeq]_vars

(* other role configurations: a summarizer role with a provider, a summarizer
   role with an empty provider list, and a configuration without role coder *)
WithSummarizer(providers) ==
    [r \in {"director", "coder", "summarizer"} |->
        IF r = "summarizer" THEN [providers |-> providers] ELSE RolesA[r]]

RolesB == WithSummarizer(<<Provider("perplexity", <<"perplexity-sonar">>, 1)>>)

RolesC == WithSummarizer(<<>>)

RolesD == [r \in {"director"} |-> RolesA[r]]

ConfigsCfg == {[roles |-> r, rateLimits |-> RateLimitsA] : r \in {RolesA, RolesB, RolesC, RolesD}}

\* direct plans with a step whose role is not in the configuration, and with
\* a step of role summarizer
DirectPlansCfg ==
    DirectPlans \cup
    {<<TwoSteps[2], Step("3", "reviewer", "Review code", <<"review the code">>, <<>>)>>,
     <<Step("1", "summarizer", "Condense", <<"condense the notes">>, <<>>)>>}

InitCfg ==
    /\ now = 0
    /\ modelConfig \in ConfigsCfg
    /\ apiKeys \in KeySets
    /\ agents = initializeAgents(modelConfig, apiKeys)
    /\ rateLimiter = [providerRequestTimestamps |-> EmptyMap,
                      providerCooldownUntil |-> EmptyMap]
    /\ taskHistory = <<>>
    /\ currentTaskProgress = Null
    /\ calls = [p \in Procs |-> IdleFrame]
    /\ admitLog = [p \in Providers |-> <<>>]
    /\ lastAdmit = Null
    /\ trips = [p \in Providers |-> NoTrip]
    /\ responses = 0
    /\ harnessCalls = 0

NextCfg ==
    \/ \E p \in Callers : CallExecuteTask(p)
    \/ \E p \in Callers : \E steps \in DirectPlansCfg : CallExecutePlan(p, steps)
    \/ \E p \in Callers : CallAskDirector(p)
    \/ \E p \in Callers : ResumeWait(p)
    \/ \E p \in Callers : \E o \in Outcomes : \E text \in PlanTexts \cup {<<>>, SummaryText, StepText} :
          \E c \in Costs : AgentResponds(p, o, text, c)
    \/ \E p \in Callers : StepReturns(p)
    \/ \E p \in Callers : ExecuteTaskReturns(p)
    \/ \E p \in Callers : Unwind(p)
    \/ \E d \in TickSteps : Tick(d)

SpecCfg == InitCfg /\ [][NextCfg]_vars

(* role configurations whose director role declares providers of equal
   priority, out of priority order, one of them with two models *)
RolesE ==
    [r \in {"director", "coder"} |->
        IF r = "director"
        THEN [providers |->
                <<Provider("gemini", <<"gemini-2.5-pro">>, 2),
                  Provider("groq", <<"llama-3.3-70b-versatile", "qwen/qwen3-32b">>, 2),
                  Provider("perplexity", <<"perplexity-sonar">>, 1)>>]
        ELSE RolesA[r]]

RolesF ==
    [r \in {"director", "coder"} |->
        IF r = "director"
        THEN [providers |->
                <<Provider("groq", <<"qwen/qwen3-32b", "llama-3.3-70b-versatile">>, 2),
                  Provider("perplexity", <<"perplexity-sonar">>, 3),
                  Provider("gemini", <<"gemini-2.5-pro">>, 2)>>]
        ELSE RolesA[r]]

ConfigsPrio == {[roles |-> r, rateLimits |-> RateLimitsA] : r \in {RolesE, RolesF}}

InitPrio ==
    /\ now = 0
    /\ modelConfig \in ConfigsPrio
    /\ apiKeys \in KeySets
    /\ agents = initializeAgents(modelConfig, apiKeys)
    /\ rateLimiter = [providerRequestTimestamps |-> EmptyMap,
                      providerCooldownUntil |-> EmptyMap]
    /\ taskHistory = <<>>
    /\ currentTaskProgress = Null
    /\ calls = [p \in Procs |-> IdleFrame]
    /\ admitLog = [p \in Providers |-> <<>>]
    /\ lastAdmit = Null
    /\ trips = [p \in Providers |-> NoTrip]
    /\ responses = 0
    /\ harnessCalls = 0

\* one caller; an agent call succeeds or answers success = false
NextPrio ==
    \/ \E p \in Callers : CallExecuteTask(p)
    \/ \E p \in Callers : \E steps \in DirectPlans : CallExecutePlan(p, steps)
    \/ \E p \in Callers : CallAskDirector(p)
    \/ \E p \in Callers : ResumeWait(p)
    \/ \E p \in Callers : \E o \in SeqOutcomes : \E text \in PlanTexts \cup {<<>>, SummaryText, StepText} :
          \E c \in SeqCosts : AgentResponds(p, o, text, c)
    \/ \E p \in Callers : StepReturns(p)
    \/ \E p \in Callers : ExecuteTaskReturns(p)
    \/ \E p \in Callers : Unwind(p)
    \/ \E d \in TickSteps : Tick(d)

SpecPrio == InitPrio /\ [][NextPrio]_vars

(* executeTaskWithRole (the chat endpoints of the OpenAI-compatible server).
   The configuration gives role director a portkey provider first and portkey
   a rate limit, as model-priorities.json does; the key set says whether the
   portkey key comes with configs *)
RolesP ==
    [r \in {"director", "coder"} |->
        IF r = "director"
        THEN [providers |->
                <<Provider("portkey", <<"moonshotai/kimi-k2">>, 1),
                  Provider("groq", <<"llama-3.3-70b-versatile">>, 2),
                  Provider("gemini", <<"gemini-2.5-pro">>, 5)>>]
        ELSE RolesA[r]]

RateLimitsP ==
    [p \in {"groq", "gemini", "portkey"} |->
        CASE p = "groq" -> RateLimitConfig(2, 90)
          [] p = "gemini" -> RateLimitConfig(1, 30)
          [] OTHER -> RateLimitConfig(1, 30)]

ConfigsRole == {[roles |-> RolesP, rateLimits |-> RateLimitsP]}

KeySetsRole == {{"groq", "gemini", "perplexity", "portkey", "portkey.configs"},
                {"groq", "gemini", "perplexity", "portkey"}}

InitRole ==
    /\ now = 0
    /\ modelConfig \in ConfigsRole
    /\ apiKeys \in KeySetsRole
    /\ agents = initializeAgents(modelConfig, apiKeys)
    /\ rateLimiter = [providerRequestTimestamps |-> EmptyMap,
                      providerCooldownUntil |-> EmptyMap]
    /\ taskHistory = <<>>
    /\ currentTaskProgress = Null
    /\ calls = [p \in Procs |-> IdleFrame]
    /\ admitLog = [p \in Providers |-> <<>>]
    /\ lastAdmit = Null
    /\ trips = [p \in Providers |-> NoTrip]
    /\ responses = 0
    /\ harnessCalls = 0

(* BradyAI.executeTaskWithRole: with a portkey key that has configs and a
   portkey agent, the agent is called directly; otherwise askDirector *)
CallExecuteTaskWithRole(p) ==
    /\ calls[p].pc = "idle"
    /\ LET f == [IdleFrame EXCEPT !.op = "executeTaskWithRole", !.phase = "portkey"]
       IN  IF "portkey" \in apiKeys /\ "portkey.configs" \in apiKeys /\ "portkey" \in agents
           THEN Apply(p, Bundle([f EXCEPT !.pc = "execPortkey",
                                    !.log = Append(@, Ev(f, 0, "invoke"))],
                                rateLimiter, modelConfig.roles, <<>>, {}))
           ELSE Apply(p, executeStep([f EXCEPT !.phase = "ask",
                                         !.task = [id |-> "direct-ask", description |-> "question"]],
                                     Step("direct-question", "director", "Answer user question",
                                          <<"prompt">>, <<>>),
                                     rateLimiter, modelConfig, now))
    /\ UNCHANGED <<now, apiKeys, agents, taskHistory, currentTaskProgress, responses,
                       harnessCalls>>

(* portkeyAgent.execute(userMessage, role) settles: a successful response is
   returned; on success = false or an exception (only logged) the call goes
   on with askDirector *)
PortkeyResponds(p, outcome, cost) ==
    LET f == calls[p]
        f1 == [f EXCEPT !.log = Append(@, Ev(f, 0, outcome))]
        response == AgentResponse(TRUE, StepText, "portkey", cost)
    IN  /\ f.pc = "execPortkey"
        /\ responses < MaxResponses
        /\ responses' = responses + 1
        /\ IF outcome = "ok"
           THEN Apply(p, Bundle([f1 EXCEPT !.pc = "done", !.outcome = "returned",
                                    !.ret = response, !.value = response],
                                rateLimiter, modelConfig.roles, <<>>, {}))
           ELSE Apply(p, executeStep([f1 EXCEPT !.phase = "ask",
                                         !.task = [id |-> "direct-ask", description |-> "question"]],
                                     Step("direct-question", "director", "Answer user question",
                                          <<"prompt">>, <<>>),
                                     rateLimiter, modelConfig, now))
        /\ UNCHANGED <<now, apiKeys, agents, taskHistory, currentTaskProgress, harnessCalls>>

SeqExecuteTaskWithRole(p) == Sequential(p) /\ CallExecuteTaskWithRole(p)

RoleOutcomes == {"ok", "throw429"}

\* one call after the other, of any of the four public operations
NextRole ==
    \/ \E p \in Procs : SeqExecuteTask(p)
    \/ \E p \in Procs : \E steps \in DirectPlans : SeqExecutePlan(p, steps)
    \/ \E p \in Procs : SeqAskDirector(p)
    \/ \E p \in Procs : SeqExecuteTaskWithRole(p)
    \/ \E p \in Procs : ResumeWait(p)
    \/ \E p \in Procs : \E o \in RoleOutcomes : \E text \in PlanTexts \cup {<<>>, SummaryText, StepText} :
          \E c \in SeqCosts : AgentResponds(p, o, text, c)
    \/ \E p \in Procs : \E o \in RoleOutcomes : \E c \in SeqCosts : PortkeyResponds(p, o, c)
    \/ \E p \in Procs : StepReturns(p)
    \/ \E p \in Procs : ExecuteTaskReturns(p)
    \/ \E p \in Procs : Unwind(p)
    \/ \E d \in TickSteps : Tick(d)

SpecRole == InitRole /\ [][NextRole]_vars

(* parsePlan unit harness: parsePlan applied to a text made of up to MaxChunks
   pieces: prose, a lone fence marker or brace, an object text or a damaged
   one, bare or between fence markers *)
Damaged == {<<Tok("{"), TokV("prose", "oops"), Tok("}")>>,
            <<Tok("{"), TokV("key", "steps"), Tok("["), Tok("{"),
              TokV("fields", "1"), Tok("}")>>}

Bodies == {Serialize(d) : d \in PlanDatas} \cup Damaged

Chunks == {Prose, <<Tok("fence")>>, <<Tok("{")>>, <<Tok("}")>>}
              \cup Bodies \cup {Fenced(b) : b \in Bodies}

\* the text made of the pieces cs[1], ..., cs[n]; a piece may be empty
RECURSIVE Concat(_, _)
Concat(cs, n) == IF n = 0 THEN <<>> ELSE Concat(cs, n - 1) \o cs[n]

ParsePlanCall(p) ==
    /\ calls[p].pc = "idle"
    /\ \E cs \in [1..MaxChunks -> Chunks \cup {<<>>}] :
          LET text == Concat(cs, MaxChunks)
              plan == parsePlan(text, Task(p))
          IN  calls' = [calls EXCEPT ![p] =
                 [IdleFrame EXCEPT !.op = "parsePlan", !.pc = "done", !.task = Task(p),
                                   !.ret = AgentResponse(TRUE, text, "", 0),
                                   !.plan = plan.steps,
                                   !.outcome = "returned",
                                   !.value = plan]]
    /\ UNCHANGED <<now, modelConfig, apiKeys, agents, rateLimiter, taskHistory,
                   currentTaskProgress, admitLog, lastAdmit, trips, responses,
                   harnessCalls>>

NextParse == \E p \in Callers : ParsePlanCall(p)

SpecParse == Init /\ [][NextParse]_vars

(* two callers on one instance, their calls interleaved at the awaits (the
   request handlers of the MCP server) *)
NextConc ==
    \/ \E p \in Procs : CallExecuteTask(p)
    \/ \E p \in Procs : \E steps \in DirectPlans : CallExecutePlan(p, steps)
    \/ \E p \in Procs : CallAskDirector(p)
    \/ \E p \in Procs : ResumeWait(p)
    \/ \E p \in Procs : \E o \in SeqOutcomes : \E text \in PlanTexts \cup {<<>>, SummaryText, StepText} :
          \E c \in SeqCosts : AgentResponds(p, o, text, c)
    \/ \E p \in Procs : StepReturns(p)
    \/ \E p \in Procs : ExecuteTaskReturns(p)
    \/ \E p \in Procs : Unwind(p)

SpecConc == Init /\ [][NextConc]_vars

(* two interleaved callers while time passes; every agent call succeeds, so a
   candidate is passed over only when its admit is refused or its agent is
   missing *)
TimedOutcomes == {"ok"}

NextTimed ==
    \/ \E p \in Procs : CallExecuteTask(p)
    \/ \E p \in Procs : \E steps \in DirectPlans : CallExecutePlan(p, steps)
    \/ \E p \in Procs : CallAskDirector(p)
    \/ \E p \in Procs : ResumeWait(p)
    \/ \E p \in Procs : \E o \in TimedOutcomes : \E text \in PlanTexts \cup {<<>>, SummaryText, StepText} :
          \E c \in SeqCosts : AgentResponds(p, o, text, c)
    \/ \E p \in Procs : StepReturns(p)
    \/ \E p \in Procs : ExecuteTaskReturns(p)
    \/ \E p \in Procs : Unwind(p)
    \/ \E d \in TickSteps : Tick(d)

SpecTimed == Init /\ [][NextTimed]_vars

----------------------------------------------------------------------------
(* Properties of the RateLimiter, stated on the last wait call *)

Configured(provider) == provider \in DOMAIN modelConfig.rateLimits

\* the allowed admits of the provider that precede the last wait call
PriorAdmits(la) ==
    LET log == admitLog[la.provider]
    IN  IF la.allowed THEN SubSeq(log, 1, Len(log) - 1) ELSE log

\* how many of them fall within the 60 seconds before the call (an admit
\* exactly 60 seconds old is no longer within them)
RecentBefore(la) ==
    Cardinality({j \in 1..Len(PriorAdmits(la)) : PriorAdmits(la)[j] > la.at - 60000})

\* a cooldown of the provider had not expired when the call was made
CooldownActiveBefore(la) ==
    /\ la.provider \in DOMAIN la.before.providerCooldownUntil
    /\ la.at < la.before.providerCooldownUntil[la.provider]

WindowBefore(la) ==
    IF la.provider \in DOMAIN la.before.providerRequestTimestamps
    THEN la.before.providerRequestTimestamps[la.provider] ELSE <<>>

\* C4: an admit of a configured provider, made with no cooldown active when
\* requestsPerMinute admits were already allowed within the preceding 60
\* seconds, is refused and sets the cooldown expiry to now + cooldownSeconds.
C4_FullWindowRefusedAndCooldown ==
    (/\ lastAdmit # Null
     /\ Configured(lastAdmit.provider)
     /\ ~CooldownActiveBefore(lastAdmit)
     /\ RecentBefore(lastAdmit) >=
            modelConfig.rateLimits[lastAdmit.provider].requestsPerMinute)
    => /\ ~lastAdmit.allowed
       /\ lastAdmit.provider \in DOMAIN lastAdmit.after.providerCooldownUntil
       /\ lastAdmit.after.providerCooldownUntil[lastAdmit.provider] =
            lastAdmit.at
              + modelConfig.rateLimits[lastAdmit.provider].cooldownSeconds * 1000

C4_Witness ==
    /\ lastAdmit # Null
    /\ Configured(lastAdmit.provider)
    /\ ~CooldownActiveBefore(lastAdmit)
    /\ modelConfig.rateLimits[lastAdmit.provider].requestsPerMinute = 2
    /\ RecentBefore(lastAdmit) = 2
    /\ ~lastAdmit.allowed
    /\ lastAdmit.at > 0

\* C5: an admit made while now < the cooldown expiry of its provider is
\* refused, whatever the window holds.
C5_CooldownRefuses ==
    (lastAdmit # Null /\ CooldownActiveBefore(lastAdmit)) => ~lastAdmit.allowed

\* the cooldown refused an admit whose window was not empty and held only
\* timestamps older than 60 seconds
C5_Witness ==
    /\ lastAdmit # Null
    /\ CooldownActiveBefore(lastAdmit)
    /\ ~lastAdmit.allowed
    /\ WindowBefore(lastAdmit) # <<>>
    /\ \A j \in 1..Len(WindowBefore(lastAdmit)) :
          WindowBefore(lastAdmit)[j] < lastAdmit.at - 60000
    /\ RecentBefore(lastAdmit) = 0

\* C6: an admit of a provider absent from the rate-limit configuration is
\* allowed, whatever admit and enterCooldown calls came before.
C6_UnconfiguredAllowed ==
    (lastAdmit # Null /\ ~Configured(lastAdmit.provider)) => lastAdmit.allowed

\* an unconfigured provider is admitted right after enterCooldown was called on it
C6_Witness ==
    /\ lastAdmit # Null
    /\ ~Configured(lastAdmit.provider)
    /\ lastAdmit.trip = lastAdmit.at
    /\ Len(admitLog[lastAdmit.provider]) >= 2
    /\ lastAdmit.allowed

\* C7: with no cooldown active, an admit of a configured provider is allowed
\* exactly when fewer than requestsPerMinute admits were allowed for it within
\* the preceding 60 seconds.
C7_AllowedIffWindowNotFull ==
    (/\ lastAdmit # Null
     /\ Configured(lastAdmit.provider)
     /\ ~CooldownActiveBefore(lastAdmit))
    => (lastAdmit.allowed <=>
          RecentBefore(lastAdmit) <
            modelConfig.rateLimits[lastAdmit.provider].requestsPerMinute)

\* requestsPerMinute = 1: two admits 70 seconds apart, both allowed
C7_Witness ==
    /\ lastAdmit # Null
    /\ Configured(lastAdmit.provider)
    /\ modelConfig.rateLimits[lastAdmit.provider].requestsPerMinute = 1
    /\ lastAdmit.allowed
    /\ Len(admitLog[lastAdmit.provider]) = 2
    /\ admitLog[lastAdmit.provider][2] - admitLog[lastAdmit.provider][1] = 70000

----------------------------------------------------------------------------
(* Properties of the step executor, stated on the log of the call *)

\* the events of the executeStep call the frame is in (or was last in)
StepEvents(f) == SelectSeq(f.log, LAMBDA e : e.phase = f.phase /\ e.i = f.i)

CountEv(E, k, kinds) == Cardinality({a \in 1..Len(E) : E[a].k = k /\ E[a].ev \in kinds})

Failures == {"refuse", "noagent", "fail", "throw", "throw429"}

\* C1: when executeStep returns, it returns the response of the first candidate
\* whose agent answered success; each earlier candidate went through wait
\* exactly once and was invoked at most once, and no later candidate was
\* admitted, refused or invoked.
C1_FirstSuccessWins ==
    \A p \in Procs :
        LET f == calls[p]
            E == StepEvents(f)
        IN  f.pc = "ret" =>
              /\ f.ret.success
              /\ f.k \in 1..Len(f.prioritizedModels)
              /\ f.ret.metadata.model = f.prioritizedModels[f.k].model
              /\ E[Len(E)].ev = "ok" /\ E[Len(E)].k = f.k
              /\ \A a, b \in 1..Len(E) : a < b => E[a].k <= E[b].k
              /\ \A j \in 1..Len(f.prioritizedModels) :
                    /\ j < f.k => /\ CountEv(E, j, {"admit", "refuse"}) = 1
                                  /\ CountEv(E, j, {"invoke"}) <= 1
                                  /\ CountEv(E, j, {"ok"}) = 0
                                  /\ CountEv(E, j, Failures) = 1
                    /\ j = f.k => /\ CountEv(E, j, {"admit"}) = 1
                                  /\ CountEv(E, j, {"invoke"}) = 1
                                  /\ CountEv(E, j, {"ok"}) = 1
                                  /\ CountEv(E, j, Failures) = 0
                    /\ j > f.k => CountEv(E, j, {"admit", "refuse", "invoke"} \cup Outcomes) = 0

\* candidates A and B answered success = false, C answered success
C1_Witness ==
    \E p \in Procs :
        LET f == calls[p]
            E == StepEvents(f)
        IN  /\ f.pc = "ret"
            /\ f.k = 3
            /\ Len(f.prioritizedModels) = 3
            /\ CountEv(E, 1, {"fail"}) = 1
            /\ CountEv(E, 2, {"fail"}) = 1

\* every candidate of the step has failed
StepExhausted(f) ==
    /\ f.prioritizedModels # <<>>
    /\ \A j \in 1..Len(f.prioritizedModels) : CountEv(StepEvents(f), j, Failures) = 1

\* C2: once every candidate of the fallback sequence has failed, executeStep
\* raises an error whose message names the role and the step id (when the last
\* failure is a refusal, once the await of that wait call has resumed).
C2_ExhaustedRaisesNamed ==
    \A p \in Procs :
        LET f == calls[p]
            E == StepEvents(f)
        IN  (StepExhausted(f) /\ f.pc # "done") =>
              IF f.pc = "wait"
              THEN E[Len(E)].ev = "refuse"
              ELSE /\ f.pc = "unwind"
                   /\ E[Len(E)].ev = "raise"
                   /\ Names(f.error, f.step.agent)
                   /\ Names(f.error, f.step.stepId)

C2_Witness ==
    \E p \in Procs :
        LET f == calls[p]
            E == StepEvents(f)
        IN  /\ StepExhausted(f)
            /\ f.pc = "unwind"
            /\ Len(f.prioritizedModels) = 3
            /\ \E a \in 1..Len(E) : E[a].ev = "noagent"
            /\ \E a \in 1..Len(E) : E[a].ev = "throw"
            /\ \E a \in 1..Len(E) : E[a].ev = "refuse"

\* C3: a candidate that fails (refused by wait, no agent, success = false, or
\* an exception) and is not the last one is followed by the wait call of the
\* next candidate (a refusal once its await has resumed, the others in the same
\* turn); executeStep raises out of the loop only when every candidate has gone
\* through wait.
C3_FailureFallsThrough ==
    \A p \in Procs :
        LET f == calls[p]
            E == StepEvents(f)
        IN  /\ \A a \in 1..Len(E) :
                  (E[a].ev \in Failures /\ E[a].k < Len(f.prioritizedModels)) =>
                      IF a = Len(E)
                      THEN E[a].ev = "refuse" /\ f.pc = "wait"
                      ELSE /\ E[a + 1].k = E[a].k + 1
                           /\ E[a + 1].ev \in {"admit", "refuse"}
            /\ (f.pc = "unwind" /\ f.prioritizedModels # <<>>) =>
                  \A j \in 1..Len(f.prioritizedModels) :
                      CountEv(E, j, {"admit", "refuse"}) = 1

\* a step answered by its third candidate after a missing agent and an exception
C3_Witness ==
    \E p \in Procs :
        LET f == calls[p]
            E == StepEvents(f)
        IN  /\ f.pc = "ret"
            /\ f.k = 3
            /\ CountEv(E, 1, {"noagent"}) = 1
            /\ CountEv(E, 2, {"throw", "throw429"}) = 1

----------------------------------------------------------------------------
(* Rate-limit signals *)

\* the last wait call was made for a provider whose agent had raised a
\* rate-limit signal, within cooldownSeconds of that signal
WithinSignalCooldown(la) ==
    /\ la.trip # NoTrip
    /\ la.at < la.trip + (IF Configured(la.provider)
                          THEN modelConfig.rateLimits[la.provider].cooldownSeconds * 1000
                          ELSE 1)

\* C8 as stated: after an agent of provider P has raised a rate-limit signal, a
\* cooldown of P is in effect, and an admit of P made before it expires (for
\* an unconfigured provider: made at the very time of the signal) is refused.
C8_SignalRefusesAnyProvider ==
    (lastAdmit # Null /\ WithinSignalCooldown(lastAdmit)) =>
        /\ lastAdmit.provider \in DOMAIN lastAdmit.before.providerCooldownUntil
        /\ ~lastAdmit.allowed

\* C8, amended: after an agent of a provider P that has a rate-limit
\* configuration has raised a rate-limit signal, every admit of P made within
\* cooldownSeconds of the signal is refused.
C8_SignalRefusesConfigured ==
    (/\ lastAdmit # Null
     /\ Configured(lastAdmit.provider)
     /\ WithinSignalCooldown(lastAdmit))
    => /\ lastAdmit.provider \in DOMAIN lastAdmit.before.providerCooldownUntil
       /\ lastAdmit.at < lastAdmit.before.providerCooldownUntil[lastAdmit.provider]
       /\ ~lastAdmit.allowed

\* a later step is refused a provider whose window was not full, because an
\* agent of that provider had raised a rate-limit signal in an earlier step
C8_Witness ==
    /\ lastAdmit # Null
    /\ Configured(lastAdmit.provider)
    /\ WithinSignalCooldown(lastAdmit)
    /\ lastAdmit.reason = "cooldown"
    /\ RecentBefore(lastAdmit) < modelConfig.rateLimits[lastAdmit.provider].requestsPerMinute
    /\ \E p \in Procs :
          /\ calls[p].phase = "steps"
          /\ calls[p].i = 2
          /\ \E a \in 1..Len(calls[p].log) :
                /\ calls[p].log[a].ev = "throw429"
                /\ calls[p].log[a].i = 1

----------------------------------------------------------------------------
(* Properties of executePlan and executeTask *)

Raised(f) == \E a \in 1..Len(f.log) : f.log[a].ev = "raise"

\* C10: once planning, a plan step or the summary step has raised, the call of
\* executeTask or executePlan runs nothing more (no later step, no summary),
\* ends raising and returns no TaskResult, and the history holds no entry for
\* its task; a call that returns a TaskResult had no step raise.
C10_AllOrNothing ==
    \A p \in Procs :
        LET f == calls[p]
        IN  f.op \in {"executeTask", "executePlan"} =>
              /\ Raised(f) =>
                    /\ f.log[Len(f.log)].ev = "raise"
                    /\ f.pc \in {"unwind", "done"}
                    /\ f.pc = "done" => f.outcome = "raised"
                    /\ f.outcome # "returned"
                    /\ f.value = Null
                    /\ \A h \in 1..Len(taskHistory) : taskHistory[h].task # f.task
              /\ f.outcome = "returned" => (~Raised(f) /\ f.value # Null)

\* the summary step raised after a plan step had produced a result
C10_Witness ==
    \E p \in Procs :
        LET f == calls[p]
        IN  /\ f.op = "executeTask"
            /\ f.pc = "done"
            /\ f.outcome = "raised"
            /\ f.phase = "summary"
            /\ Len(f.results) >= 1
            /\ taskHistory = <<>>

----------------------------------------------------------------------------
(* Properties of the TaskResult *)

Returned(f) == f.op \in {"executeTask", "executePlan"} /\ f.outcome = "returned"

\* the response that ended plan step j of the call: the successful candidate's
\* model, as the fallback sequence of the step's role names it
StepWinner(f, j) ==
    LET a == CHOOSE a \in 1..Len(f.log) :
                 f.log[a].phase = "steps" /\ f.log[a].i = j /\ f.log[a].ev = "ok"
    IN  FlatMapModels(SortByPriority(modelConfig.roles[f.plan[j].agent].providers))
            [f.log[a].k].model

\* C11 as stated: a returned TaskResult of a plan of k steps holds k + 1
\* responses, the last one being the response of the summary step.
C11_ResultsEndWithSummary ==
    \A p \in Procs :
        LET f == calls[p]
        IN  Returned(f) =>
              /\ Len(f.value.results) = Len(f.plan) + 1
              /\ f.value.results[Len(f.value.results)].result = f.value.summary

\* C11, amended: a returned TaskResult of a plan of k steps holds k responses,
\* the response of plan step j at position j; the response of the summary
\* step is not among them, its text is the summary field of the TaskResult.
C11_ResultsArePlanSteps ==
    \A p \in Procs :
        LET f == calls[p]
        IN  Returned(f) =>
              /\ Len(f.value.results) = Len(f.plan)
              /\ \A j \in 1..Len(f.plan) :
                    /\ f.value.results[j].success
                    /\ f.value.results[j].result = StepText
                    /\ f.value.results[j].metadata.model = StepWinner(f, j)
              /\ f.value.summary = SummaryText

\* a task with a plan of two steps returned, its steps answered by two
\* different models
C11_Witness ==
    \E p \in Procs :
        LET f == calls[p]
        IN  /\ Returned(f)
            /\ f.op = "executeTask"
            /\ Len(f.plan) = 2
            /\ Len(f.value.results) = 2
            /\ f.value.results[1].metadata.model # f.value.results[2].metadata.model

\* the costs of the responses held by a TaskResult, added from the last one
RECURSIVE CostsHeld(_, _)
CostsHeld(results, n) ==
    IF n = 0 THEN 0 ELSE CostsHeld(results, n - 1) + results[n].metadata.cost

\* C12: the totalCost of a returned TaskResult, and of every history entry, is
\* the sum of metadata.cost over the responses in its results.
C12_TotalCostIsSum ==
    /\ \A p \in Procs :
          Returned(calls[p]) =>
              calls[p].value.totalCost =
                  CostsHeld(calls[p].value.results, Len(calls[p].value.results))
    /\ \A h \in 1..Len(taskHistory) :
          taskHistory[h].result.totalCost =
              CostsHeld(taskHistory[h].result.results, Len(taskHistory[h].result.results))

\* two steps with a cost each, and a summary step with a cost of its own
C12_Witness ==
    \E p \in Procs :
        LET f == calls[p]
        IN  /\ Returned(f)
            /\ Len(f.value.results) = 2
            /\ f.value.results[1].metadata.cost = 2
            /\ f.value.results[2].metadata.cost = 2
            /\ f.ret.metadata.cost = 2
            /\ f.value.totalCost = 4

----------------------------------------------------------------------------
(* Properties of the task history *)

\* the history entries of the task of call p
EntriesOf(p) == {h \in 1..Len(taskHistory) : taskHistory[h].task = Task(p)}

PlanCall(f) == f.op \in {"executeTask", "executePlan"}

\* C13: the task history is append-only.  A call of executePlan (direct, or
\* made by executeTask) that has built its TaskResult has exactly one entry,
\* holding that result and the time of completion; a call that has not, and
\* so a call that raised, has none; askDirector has none; a step of the
\* program leaves the history alone or appends one entry, so the entries
\* stand in completion order.
C13_HistoryAppendOnly ==
    /\ [](/\ \A p \in Procs :
                LET f == calls[p]
                IN  IF PlanCall(f) /\ f.value # Null
                    THEN /\ Cardinality(EntriesOf(p)) = 1
                         /\ \A h \in EntriesOf(p) : taskHistory[h].result = f.value
                    ELSE EntriesOf(p) = {}
          /\ \A h \in 1..Len(taskHistory) : \E p \in Procs : h \in EntriesOf(p)
          /\ \A g, h \in 1..Len(taskHistory) :
                g < h => taskHistory[g].timestamp <= taskHistory[h].timestamp)
    /\ [][\/ taskHistory' = taskHistory
          \/ /\ Len(taskHistory') = Len(taskHistory) + 1
             /\ SubSeq(taskHistory', 1, Len(taskHistory)) = taskHistory]_vars

\* the first call returned and the second one did later: two entries, in
\* the order of completion
C13_Witness ==
    /\ Len(taskHistory) = 2
    /\ taskHistory[1].task = Task(1)
    /\ taskHistory[2].task = Task(2)
    /\ taskHistory[1].timestamp < taskHistory[2].timestamp
    /\ calls[1].op = "executeTask"
    /\ calls[2].op = "executePlan"
    /\ calls[2].outcome = "returned"

----------------------------------------------------------------------------
(* Properties of the progress slot *)

\* the status values a call of executeTask has written into the slot
Statuses(f) == SelectSeq(f.progress, LAMBDA x : x # "null")

IsPrefix(a, b) == Len(a) <= Len(b) /\ SubSeq(b, 1, Len(a)) = a

\* C14: the status of an executeTask goes Planning, Executing, then Completed
\* or Failed, never backwards; a task that returns its TaskResult has reached
\* Completed and a task that raises has reached Failed.
C14_PlanningExecutingCompletedOrFailed ==
    \A p \in Procs :
        LET f == calls[p]
            st == Statuses(f)
        IN  f.op = "executeTask" =>
              /\ \/ IsPrefix(st, <<"Planning", "Executing", "Completed">>)
                 \/ IsPrefix(st, <<"Planning", "Executing", "Failed">>)
                 \/ st = <<"Planning", "Failed">>
              /\ f.outcome = "returned" => st[Len(st)] = "Completed"
              /\ f.outcome = "raised" => st[Len(st)] = "Failed"

\* C15: when a call of executeTask has returned or raised, the last thing it
\* did to the slot was to clear it, and on the failure path it wrote the
\* status Failed right before.
C15_ClearedAndFailedBefore ==
    \A p \in Procs :
        LET f == calls[p]
            n == Len(f.progress)
        IN  (f.op = "executeTask" /\ f.pc = "done") =>
              /\ f.progress[n] = "null"
              /\ f.outcome = "raised" => (n >= 2 /\ f.progress[n - 1] = "Failed")

----------------------------------------------------------------------------
(* Properties of parsePlan *)

\* an opening brace with a closing brace somewhere after it
HasBraces(text) ==
    \E a, b \in 1..Len(text) : a < b /\ Is(text, a, "{") /\ Is(text, b, "}")

\* the object text parsePlan hands to JSON.parse
Found(text) ==
    IF codeBlockMatch(text) # <<>> THEN codeBlockMatch(text) ELSE simpleMatch(text)

StepsArray(d) == d.present /\ d.kind = "array"

IsFallback(plan, task) ==
    /\ plan.taskId = task.id
    /\ Len(plan.steps) = 1
    /\ plan.steps[1].agent = "coder"
    /\ plan.steps[1].action = "Complete task"
    /\ \E j \in 1..Len(plan.steps[1].input) : plan.steps[1].input[j] = task.description

\* C16: parsePlan returns a plan for every text; when the text has no
\* brace-delimited object, or the object found does not deserialize, or the
\* value has no steps or steps that are not an array, the plan is the fallback
\* plan: taskId of the task, one step, role "coder", action "Complete task",
\* the task description in its input.  The fallback is the same for every
\* such text.
C16_FallbackOnAnyFailure ==
    \A p \in Procs :
        LET f == calls[p]
            text == f.ret.result
            parsed == JSONparse(Found(text))
        IN  f.op = "parsePlan" =>
              /\ f.outcome = "returned"
              /\ f.value.taskId = f.task.id
              /\ (\/ ~HasBraces(text)
                  \/ ~parsed.ok
                  \/ ~StepsArray(parsed.data))
                 => (IsFallback(f.value, f.task) /\ f.value = FallbackPlan(f.task))

\* a fenced object that does not deserialize, then a bare object that would
\* have: the fallback plan
C16_Witness ==
    \E p \in Procs :
        LET f == calls[p]
            text == f.ret.result
        IN  /\ f.op = "parsePlan"
            /\ codeBlockMatch(text) \in Damaged
            /\ \E d \in PlanDatas :
                  StepsArray(d) /\ text = Fenced(codeBlockMatch(text)) \o Serialize(d)
            /\ IsFallback(f.value, f.task)

\* the text holds, between two fence markers, the text of an object with a
\* steps array
HoldsFenced(text, d) ==
    \E a \in 1..Len(text) : \E b \in a..Len(text) :
        /\ Is(text, a, "fence")
        /\ Is(text, b + 1, "fence")
        /\ SubSeq(text, a + 1, b) = Serialize(d)

\* C17 as stated: when the text holds a fenced object that deserializes with a
\* (non-empty) steps array, the plan has the task id and exactly the steps of
\* such an object.
C17_AnyFencedObject ==
    \A p \in Procs :
        LET f == calls[p]
            text == f.ret.result
        IN  (/\ f.op = "parsePlan"
             /\ \E d \in PlanDatas : StepsArray(d) /\ d.items # <<>> /\ HoldsFenced(text, d))
            => /\ f.value.taskId = f.task.id
               /\ \E d \in PlanDatas :
                     StepsArray(d) /\ HoldsFenced(text, d) /\ f.value.steps = d.items

\* the first fenced block of the text: it opens at the leftmost fence marker
\* that an opening brace follows and that has, further on, a closing brace
\* followed by a fence marker; it ends at the nearest such closing brace
FirstFencedBlock(text) ==
    LET ends(a) == {b \in (a + 2)..Len(text) : Is(text, b, "}") /\ Is(text, b + 1, "fence")}
        starts == {a \in 1..Len(text) :
                      Is(text, a, "fence") /\ Is(text, a + 1, "{") /\ ends(a) # {}}
        a0 == CHOOSE a \in starts : \A x \in starts : a <= x
        b0 == CHOOSE b \in ends(a0) : \A y \in ends(a0) : b <= y
    IN  IF starts = {} THEN <<>> ELSE [j \in 1..(b0 - a0) |-> text[a0 + j]]

\* C17, amended: when the first fenced block of the text deserializes with a
\* steps array, the plan has the task id and exactly the steps of that array,
\* in its order.
C17_FirstFencedObject ==
    \A p \in Procs :
        LET f == calls[p]
            text == f.ret.result
        IN  f.op = "parsePlan" =>
              \A d \in PlanDatas :
                  (StepsArray(d) /\ FirstFencedBlock(text) = Serialize(d))
                  => /\ f.value.taskId = f.task.id
                     /\ f.value.steps = d.items
                     /\ f.value.reasoning = "Auto-generated parallel plan"

\* two fenced objects with the same steps in different orders: the plan has
\* the steps of the first one
C17_Witness ==
    \E p \in Procs :
        LET f == calls[p]
            text == f.ret.result
        IN  /\ f.op = "parsePlan"
            /\ \E d, e \in PlanDatas :
                  /\ StepsArray(d) /\ StepsArray(e)
                  /\ Len(d.items) = 2 /\ Len(e.items) = 2 /\ d # e
                  /\ text = Fenced(Serialize(d)) \o Fenced(Serialize(e))
                  /\ f.value.steps = d.items

----------------------------------------------------------------------------
(* Properties of the role configuration *)

\* the role has no models: it is absent or its provider list is empty
Unconfigured(role) ==
    role \notin DOMAIN modelConfig.roles \/ Len(modelConfig.roles[role].providers) = 0

\* the events of the step the call is at
AtStep(f) == {a \in 1..Len(f.log) : f.log[a].phase = f.phase /\ f.log[a].i = f.i}

\* C20: executeStep on a step whose role is absent or has no providers raises
\* "No models configured for role" with the role, makes no wait call and no
\* agent call for the step, leaves the RateLimiter as it was, and the plan or
\* task the step belongs to ends raising that error, nothing of it returned.
C20_UnconfiguredRoleRaises ==
    /\ [](\A p \in Procs :
            LET f == calls[p]
            IN  (f.step # NoStep /\ Unconfigured(f.step.agent)) =>
                  /\ f.pc \in {"unwind", "done"}
                  /\ f.error = Error(<<"No models configured for role:", f.step.agent>>)
                  /\ f.outcome # "returned"
                  /\ f.value = Null
                  /\ \A a \in AtStep(f) : f.log[a].ev = "raise" /\ a = Len(f.log)
                  /\ f.pc = "done" => f.outcome = "raised")
    /\ [][\A p \in Procs :
            (calls'[p].step # calls[p].step /\ Unconfigured(calls'[p].step.agent))
            => /\ rateLimiter' = rateLimiter
               /\ admitLog' = admitLog
               /\ lastAdmit' = lastAdmit]_vars

\* a plan whose second step names a role that is not in the configuration was
\* aborted after its first step had returned a response; and the RateLimiter
\* had admitted requests before
C20_Witness ==
    \E p \in Procs :
        LET f == calls[p]
        IN  /\ f.op = "executePlan"
            /\ f.pc = "done"
            /\ f.outcome = "raised"
            /\ f.i = 2
            /\ f.step.agent \notin DOMAIN modelConfig.roles
            /\ Len(f.results) = 1
            /\ lastAdmit # Null
            /\ taskHistory = <<>>

\* C19: the summary step runs under role "summarizer" when that role is
\* configured, under role "director" when it is absent or has no providers;
\* so the summary step never raises for lack of models while role director
\* has models.
C19_SummarizerOrDirector ==
    \A p \in Procs :
        LET f == calls[p]
        IN  f.phase = "summary" =>
              /\ f.step.agent = IF Unconfigured("summarizer") THEN "director"
                                ELSE "summarizer"
              /\ ~Unconfigured("director") =>
                    f.error # Error(<<"No models configured for role:", f.step.agent>>)

\* the planning answer of the call cannot be parsed
Unparseable(f) ==
    /\ f.op = "executeTask"
    /\ f.phase \in {"steps", "summary"}
    /\ \/ ~HasBraces(f.planText)
       \/ ~JSONparse(Found(f.planText)).ok
       \/ ~StepsArray(JSONparse(Found(f.planText)).data)

\* every agent invocation of the call so far has succeeded
AllInvocationsSucceeded(f) ==
    \A a \in 1..Len(f.log) : f.log[a].ev \notin {"fail", "throw", "throw429"}

\* C18 as stated: a task whose planning call succeeded with a text that cannot
\* be parsed, and whose agent invocations all succeed, returns a TaskResult.
C18_UnparseablePlanReturns ==
    \A p \in Procs :
        LET f == calls[p]
        IN  (Unparseable(f) /\ AllInvocationsSucceeded(f) /\ f.pc = "done")
            => (f.outcome = "returned" /\ f.value # Null)

\* C18, amended: a planning answer that cannot be parsed makes the task
\* execute the fallback plan, one step of role "coder"; when every agent
\* invocation succeeds the task returns a TaskResult with the response of that
\* step, unless the step executor had no candidate to invoke for the fallback
\* step or for the summary step: the role of the step has no models, or every
\* candidate of it was refused admission or had no agent.
C18_UnparseablePlanRunsFallback ==
    \A p \in Procs :
        LET f == calls[p]
        IN  Unparseable(f) =>
              /\ IsFallback([taskId |-> f.task.id, steps |-> f.plan], f.task)
              /\ f.i \in {1, 2}
              /\ (f.pc = "done" /\ AllInvocationsSucceeded(f)) =>
                    \/ /\ f.outcome = "returned"
                       /\ Len(f.value.results) = 1
                       /\ f.value.results[1].result = StepText
                    \/ /\ f.outcome = "raised"
                       /\ f.log[Len(f.log)].ev = "raise"
                       /\ \A a \in AtStep(f) : f.log[a].ev # "invoke"
                       /\ \/ Unconfigured(f.step.agent)
                          \/ \A k \in 1..Len(f.prioritizedModels) :
                                \E a \in AtStep(f) :
                                    /\ f.log[a].k = k
                                    /\ f.log[a].ev \in {"refuse", "noagent"}

\* the director answered in prose, role coder is configured and its candidate
\* succeeded, the summary succeeded: the task returned
C18_Witness ==
    \E p \in Procs :
        LET f == calls[p]
        IN  /\ Unparseable(f)
            /\ f.planText = Prose
            /\ AllInvocationsSucceeded(f)
            /\ f.pc = "done"
            /\ f.outcome = "returned"
            /\ Len(f.value.results) = 1

----------------------------------------------------------------------------
(* Properties of askDirector *)

\* C21: a call of askDirector runs one step, "direct-question" under role
\* "director", through the step executor (every agent call of it follows the
\* allowed admit of its candidate, a candidate that fails is followed by the
\* next one); it has no plan, no plan step and no summary step, returns the
\* response of that step, writes nothing into the progress slot, and no step
\* of the call changes the progress slot or the task history.
C21_AskDirectorOneStep ==
    /\ [](\A p \in Procs :
            LET f == calls[p]
                L == f.log
            IN  f.op = "askDirector" =>
                  /\ f.phase = "ask"
                  /\ f.step.stepId = "direct-question"
                  /\ f.step.agent = "director"
                  /\ f.plan = <<>> /\ f.results = <<>> /\ f.planText = <<>>
                  /\ f.progress = <<>>
                  /\ \A a \in 1..Len(L) :
                        /\ L[a].phase = "ask"
                        /\ L[a].step = "direct-question"
                        /\ L[a].ev = "invoke" =>
                              (a > 1 /\ L[a - 1].ev = "admit" /\ L[a - 1].k = L[a].k)
                        /\ a > 1 => L[a].k \in {L[a - 1].k, L[a - 1].k + 1}
                  /\ \A h \in 1..Len(taskHistory) : taskHistory[h].task # f.task
                  /\ f.outcome = "returned" => (f.value = f.ret /\ f.ret.result = StepText))
    /\ [][\A p \in Procs :
            (calls'[p].op = "askDirector" /\ calls'[p] # calls[p])
            => /\ taskHistory' = taskHistory
               /\ currentTaskProgress' = currentTaskProgress]_vars

\* askDirector returned the answer of its third candidate while a task was
\* being planned: the slot still shows that task
C21_Witness ==
    \E p, q \in Procs :
        /\ calls[p].op = "askDirector"
        /\ calls[p].outcome = "returned"
        /\ calls[p].k = 3
        /\ calls[q].op = "executeTask"
        /\ calls[q].pc = "exec"
        /\ currentTaskProgress # Null
        /\ currentTaskProgress.status = "Planning"

----------------------------------------------------------------------------
(* Admission under interleaving *)

\* the allowed admits of the provider within the 60 seconds that end at time t
\* (an admit exactly 60 seconds before t is no longer within them)
AdmitsWithin(provider, t) ==
    Cardinality({j \in 1..Len(admitLog[provider]) :
                    admitLog[provider][j] > t - 60000 /\ admitLog[provider][j] <= t})

IsSuffix(a, b) == Len(a) <= Len(b) /\ SubSeq(b, Len(b) - Len(a) + 1, Len(b)) = a

\* the candidate the call is at
Candidate(f) == f.prioritizedModels[f.k]

\* C22: whatever the interleaving of executeTask, executePlan and askDirector
\* calls, the allowed admits of a configured provider within any 60 seconds
\* number at most its requestsPerMinute; every allowed admit is in the window
\* of its provider when wait returns, so the window a later wait call reads
\* holds the latest admits of the provider, whichever call made them.
C22_NoDoubleAdmit ==
    \A provider \in DOMAIN modelConfig.rateLimits :
        /\ \A j \in 1..Len(admitLog[provider]) :
              AdmitsWithin(provider, admitLog[provider][j])
                  <= modelConfig.rateLimits[provider].requestsPerMinute
        /\ IF provider \in DOMAIN rateLimiter.providerRequestTimestamps
           THEN /\ admitLog[provider] # <<>>
                /\ IsSuffix(rateLimiter.providerRequestTimestamps[provider], admitLog[provider])
                /\ rateLimiter.providerRequestTimestamps[provider][
                        Len(rateLimiter.providerRequestTimestamps[provider])]
                    = admitLog[provider][Len(admitLog[provider])]
           ELSE admitLog[provider] = <<>>

\* requestsPerMinute = 1: one call holds the admit of the provider made 60
\* seconds after the previous one and is waiting for its agent, the other
\* call asked for the same provider in the meantime and was refused
C22_Witness ==
    /\ lastAdmit # Null
    /\ lastAdmit.provider = "gemini"
    /\ lastAdmit.reason = "rate limit reached"
    /\ Len(admitLog["gemini"]) = 2
    /\ admitLog["gemini"][2] - admitLog["gemini"][1] = 60000
    /\ \E p, q \in Procs :
          /\ calls[p].pc = "exec" /\ Candidate(calls[p]).provider = "gemini"
          /\ calls[q].pc = "wait" /\ Candidate(calls[q]).provider = "gemini"
          /\ ~calls[q].rateLimitCheck.allowed

----------------------------------------------------------------------------
(* The fallback candidate sequence *)

AllConfigs == Configs \cup ConfigsCfg \cup ConfigsPrio

SameElements(a, b) ==
    /\ Len(a) = Len(b)
    /\ \A x \in {a[j] : j \in 1..Len(a)} \cup {b[j] : j \in 1..Len(b)} :
          Cardinality({j \in 1..Len(a) : a[j] = x}) = Cardinality({j \in 1..Len(b) : b[j] = x})

\* the configuration as it was loaded: the one whose provider lists hold the
\* elements the lists of the running configuration hold (no two configurations
\* of the model differ by the order of a list only)
Loaded ==
    CHOOSE c \in AllConfigs :
        /\ DOMAIN c.roles = DOMAIN modelConfig.roles
        /\ \A r \in DOMAIN c.roles :
              SameElements(c.roles[r].providers, modelConfig.roles[r].providers)

\* the (provider, model) pairs of a declared provider list, by position
PairsOf(decl) ==
    {<<d, m>> : d \in 1..Len(decl), m \in 1..2} \cap
    {x \in (1..Len(decl)) \X (1..2) : x[2] <= Len(decl[x[1]].models)}

\* pair x is tried before pair y: lower priority number; equal priority and
\* declared earlier; same provider entry and listed earlier
Before(decl, x, y) ==
    \/ decl[x[1]].priority < decl[y[1]].priority
    \/ decl[x[1]].priority = decl[y[1]].priority /\ x[1] < y[1]
    \/ x[1] = y[1] /\ x[2] < y[2]

Expected(decl) ==
    [n \in 1..Cardinality(PairsOf(decl)) |->
        LET x == CHOOSE x \in PairsOf(decl) :
                     Cardinality({y \in PairsOf(decl) : Before(decl, y, x)}) = n - 1
        IN  [model |-> decl[x[1]].models[x[2]], provider |-> decl[x[1]].name]]

\* C23: the candidate sequence of an executeStep call lists the providers of
\* the role by ascending priority number, providers of equal priority in the
\* order the loaded configuration declares them, the models of a provider in
\* their declared order; so every executeStep call on the role gets the same
\* sequence.
C23_CandidateSequenceOrder ==
    \A p \in Procs :
        LET f == calls[p]
        IN  (f.step # NoStep /\ ~Unconfigured(f.step.agent)) =>
              f.prioritizedModels = Expected(Loaded.roles[f.step.agent].providers)

\* the summary step of a task, the second step the task runs under role
\* director: the role declares two providers of equal priority before the one
\* that is tried first, and the sequence has four candidates
C23_Witness ==
    \E p \in Procs :
        LET f == calls[p]
            decl == Loaded.roles["director"].providers
        IN  /\ f.op = "executeTask"
            /\ f.phase = "summary"
            /\ f.step.agent = "director"
            /\ Len(f.prioritizedModels) = 4
            /\ decl[1].priority = decl[2].priority
            /\ decl[3].priority < decl[1].priority
            /\ decl # modelConfig.roles["director"].providers
            /\ f.prioritizedModels[1].provider = decl[3].name
            /\ f.prioritizedModels[2].provider = decl[1].name

\* C24: the step executor leaves the role configuration as it was loaded:
\* every role's provider list holds the same elements in the same order.
C24_ConfigurationReadOnly ==
    /\ DOMAIN modelConfig.roles = DOMAIN Loaded.roles
    /\ \A r \in DOMAIN modelConfig.roles :
          modelConfig.roles[r].providers = Loaded.roles[r].providers

----------------------------------------------------------------------------
(* Every agent call is admitted *)

\* the provider of the agent the call is invoking
InvokedProvider(f) == IF f.pc = "execPortkey" THEN "portkey" ELSE Candidate(f).provider

CooldownActive(provider) ==
    /\ provider \in DOMAIN rateLimiter.providerCooldownUntil
    /\ now < rateLimiter.providerCooldownUntil[provider]

\* C25: every agent call of a public operation follows the allowed admit of
\* its candidate: the event before the invocation is that admit, and no agent
\* is invoked at a time when a cooldown of its provider is active.
C25_InvokeFollowsAdmit ==
    /\ [](\A p \in Procs :
            LET L == calls[p].log
            IN  \A a \in 1..Len(L) :
                    L[a].ev = "invoke" =>
                        /\ a > 1
                        /\ L[a - 1].ev = "admit"
                        /\ L[a - 1].k = L[a].k
                        /\ L[a - 1].phase = L[a].phase)
    /\ [][\A p \in Procs :
            (calls'[p].pc \in {"exec", "execPortkey"} /\ calls[p].pc \notin {"exec", "execPortkey"})
            => ~CooldownActive(InvokedProvider(calls'[p]))]_vars

----------------------------------------------------------------------------
(* Interleaved calls and the progress slot *)

\* C26: when calls of executeTask interleave, the outcome of each is what
\* its own steps make it: it raises only when one of its steps raised, with
\* the error of that step, and returns its TaskResult otherwise; a task whose
\* agent calls all succeed and none of whose steps raised returns.
C26_OutcomeAsIfAlone ==
    \A p \in Procs :
        LET f == calls[p]
        IN  (f.op = "executeTask" /\ f.pc = "done") =>
              /\ f.outcome = "raised" =>
                    /\ Raised(f)
                    /\ f.error # TypeError
                    /\ Names(f.error, f.step.agent)
              /\ ~Raised(f) => (f.outcome = "returned" /\ f.value # Null)

\* C28: a non-null progress record has 0 <= completedSteps <= totalSteps and
\* the id of a task whose executeTask call is in flight, also when calls of
\* executeTask and of executePlan interleave.
C28_ProgressRecordValid ==
    currentTaskProgress # Null =>
        /\ 0 <= currentTaskProgress.completedSteps
        /\ currentTaskProgress.completedSteps <= currentTaskProgress.totalSteps
        /\ \E p \in Procs :
              /\ calls[p].op = "executeTask"
              /\ calls[p].pc \notin {"idle", "done"}
              /\ calls[p].task.id = currentTaskProgress.taskId

----------------------------------------------------------------------------
(* Responses handed to callers *)

AllSuccessful(results) == \A j \in 1..Len(results) : results[j].success

\* C27: every response executeStep returns has success = true: the response
\* a caller of executeStep resumes with (the planning response, the response
\* of a plan step, the summary response, the answer of askDirector), every
\* response collected by executePlan, every response in a returned TaskResult
\* and in a history entry.
C27_OnlySuccessfulResponses ==
    /\ \A p \in Procs :
          LET f == calls[p]
          IN  /\ f.pc = "ret" => f.ret.success
              /\ AllSuccessful(f.results)
              /\ f.planText # <<>> => f.planText \in PlanTexts
              /\ (f.op = "askDirector" /\ f.outcome = "returned") => f.value.success
              /\ Returned(f) =>
                    /\ AllSuccessful(f.value.results)
                    /\ f.value.summary = SummaryText
                    /\ f.ret.success
    /\ \A h \in 1..Len(taskHistory) : AllSuccessful(taskHistory[h].result.results)

\* a task returned its TaskResult after an agent had answered success =
\* false in the planning step and in a plan step, each time followed by a
\* candidate that succeeded
C27_Witness ==
    \E p \in Procs :
        LET f == calls[p]
        IN  /\ Returned(f)
            /\ f.op = "executeTask"
            /\ Len(taskHistory) = 1
            /\ \A ph \in {"plan", "steps"} :
                  \E a \in 1..Len(f.log) : f.log[a].phase = ph /\ f.log[a].ev = "fail"
            /\ Len(f.value.results) >= 1

----------------------------------------------------------------------------
(* What a call of the RateLimiter changes *)

\* the window and the cooldown expiry the RateLimiter holds for a provider
\* (no entry reads as an empty window, as no cooldown)
WindowOf(rl, provider) ==
    IF provider \in DOMAIN rl.providerRequestTimestamps
    THEN rl.providerRequestTimestamps[provider] ELSE <<>>

CooldownOf(rl, provider) ==
    IF provider \in DOMAIN rl.providerCooldownUntil
    THEN rl.providerCooldownUntil[provider] ELSE 0

\* C29: a refused admit records no timestamp.  Refused for an active cooldown,
\* it changes nothing; refused for a full window, it changes the cooldown
\* expiry of its provider and nothing else; an allowed admit changes the
\* window of its provider and nothing else; and a step that changes the
\* window or the cooldown expiry of a provider is an admit or an enterCooldown
\* of that very provider.
C29_RefusalRecordsNothing ==
    /\ [](lastAdmit # Null =>
            LET la == lastAdmit
            IN  /\ ~la.allowed => WindowOf(la.after, la.provider) = WindowOf(la.before, la.provider)
                /\ (~la.allowed /\ CooldownActiveBefore(la)) => la.after = la.before
                /\ (~la.allowed /\ ~CooldownActiveBefore(la)) =>
                      /\ la.after.providerRequestTimestamps = la.before.providerRequestTimestamps
                      /\ CooldownOf(la.after, la.provider) # CooldownOf(la.before, la.provider)
                /\ la.allowed =>
                      la.after.providerCooldownUntil = la.before.providerCooldownUntil
                /\ \A q \in Providers \ {la.provider} :
                      /\ WindowOf(la.after, q) = WindowOf(la.before, q)
                      /\ CooldownOf(la.after, q) = CooldownOf(la.before, q))
    /\ [][\A q \in Providers :
            (\/ WindowOf(rateLimiter', q) # WindowOf(rateLimiter, q)
             \/ CooldownOf(rateLimiter', q) # CooldownOf(rateLimiter, q))
            => \/ lastAdmit' # lastAdmit /\ lastAdmit'.provider = q
               \/ trips'[q] # trips[q] /\ lastAdmit' = lastAdmit]_vars

\* an admit refused for a full window while another provider has a window
\* with an admit in it and a cooldown set by enterCooldown
C29_Witness ==
    /\ lastAdmit # Null
    /\ lastAdmit.reason = "rate limit reached"
    /\ \E q \in Providers \ {lastAdmit.provider} :
          /\ WindowOf(lastAdmit.before, q) # <<>>
          /\ CooldownOf(lastAdmit.before, q) > lastAdmit.at
          /\ trips[q] # NoTrip

----------------------------------------------------------------------------
(* Termination *)

\* the events of the executeStep call made in the given phase at plan index i
EventsOf(f, ph, i) == SelectSeq(f.log, LAMBDA e : e.phase = ph /\ e.i = i)

Phases == {"plan", "steps", "summary", "ask"}

\* the agent call of p cannot settle any more: the model has given all its
\* responses
Unsettled(p) == calls[p].pc = "exec" /\ responses >= MaxResponses

\* C30: in every executeStep call each candidate goes through wait at most
\* once, is invoked at most once and settles at most once, candidates are
\* taken in order and never again, so the call makes at most as many agent
\* calls as the role has (provider, model) pairs; and, every agent call
\* settling, a call of a public operation that has started ends: it returns
\* its result or raises.
C30_StepExecutorTerminates ==
    /\ [](\A p \in Procs :
            LET f == calls[p]
            IN  /\ \A ph \in Phases : \A i \in 0..(Len(f.plan) + 1) :
                      LET E == EventsOf(f, ph, i)
                      IN  /\ \A k \in 1..4 :
                                /\ CountEv(E, k, {"admit", "refuse"}) <= 1
                                /\ CountEv(E, k, {"invoke"}) <= 1
                                /\ CountEv(E, k, Outcomes) <= 1
                          /\ \A a, b \in 1..Len(E) : a < b => E[a].k <= E[b].k
                /\ (f.step # NoStep /\ ~Unconfigured(f.step.agent)) =>
                      /\ Len(f.prioritizedModels)
                            = Cardinality(PairsOf(modelConfig.roles[f.step.agent].providers))
                      /\ \A a \in 1..Len(StepEvents(f)) :
                            StepEvents(f)[a].k <= Len(f.prioritizedModels) + 1
                      /\ Cardinality({a \in 1..Len(StepEvents(f)) :
                                         StepEvents(f)[a].ev = "invoke"})
                            <= Len(f.prioritizedModels))
    /\ \A p \in Callers :
          (calls[p].pc # "idle") ~>
              (\/ calls[p].pc = "done" /\ calls[p].outcome \in {"returned", "raised"}
               \/ Unsettled(p))

\* a task ended raising after the three candidates of a plan step had each
\* been admitted, invoked and had failed
C30_Witness ==
    \E p \in Procs :
        LET f == calls[p]
            E == StepEvents(f)
        IN  /\ f.op = "executeTask"
            /\ f.pc = "done"
            /\ f.outcome = "raised"
            /\ f.phase = "steps"
            /\ Len(f.prioritizedModels) = 3
            /\ \A k \in 1..3 : CountEv(E, k, {"invoke"}) = 1

====
